---- MODULE Spec2Model ----
(***************************************************************************)
(* A model of the oms-ws conversational relay.  Each component of the      *)
(* repository is a class whose collaborators are injected; each class is   *)
(* modelled with its own state and its own specification:                  *)
(*                                                                         *)
(*   SpecRegistry  WebSocketServer        (src/src/websocket/server.ts)    *)
(*   SpecHistory   ChatHistoryManager     (src/src/orchestrator/           *)
(*                                         chat-history.ts)                *)
(*   SpecQueue     EmbeddingQueue         (src/src/llm/openai.ts 419-496)  *)
(*   SpecRag       the merge/filter of conversational retrieval            *)
(*                                        (service.ts 298-323)             *)
(*   SpecTurn      OrchestratorService.processMessage / cancel             *)
(*                                        (src/src/orchestrator/service.ts)*)
(*                                                                         *)
(* The variables of a component that a specification does not exercise     *)
(* keep their initial value under that specification.                      *)
(***************************************************************************)
EXTENDS Integers, Sequences, FiniteSets, TLC

None == "none"

Rooms == {"r1", "r2"}
Users == {"u1", "u2"}

(***************************************************************************)
(* Bounds of the model.                                                    *)
(***************************************************************************)
NumConns == 3
MaxAppends == 3      \* addMessage calls made under SpecHistory
MaxSnapshots == 1    \* getHistory results kept by callers under SpecHistory
MaxJobs == 3         \* enqueue calls made under SpecQueue
MaxJobChunks == 2    \* chunks chunkText cuts one job's content into
MaxTail == 2         \* general-query matches drawn freely after the block of filler matches
MaxProfile == 2      \* profile-query matches
MaxTurns == 1        \* user messages processed under SpecTurn
MaxConcurrentTurns == 2  \* user messages processed under SpecRooms
MaxChunks == 2       \* 5-word chunks of one streamed text
MaxToolCalls == 1    \* tool calls in one model response
MaxDocs == 1         \* selected document ids of one message
MaxSelected == 2     \* selected document ids of one querySelectedDocuments call
MaxMatches == 2      \* matches the vector store returns to one document query
Horizon == 1         \* the clock runs up to Horizon cleanup intervals (and 1 ms)

VARIABLES
  \* ---- WebSocketServer (server.ts 22-25) and the sockets it serves
  readyState,      \* connection -> "none" | "open" | "closing"              (ws.readyState)
  clients,         \* remote address -> None | [ws, rooms]                   (ClientMap)
  rooms,           \* room id -> None | set of remote addresses              (RoomMap)
  roomUsers,       \* room id -> None | user id                              (roomUsers)
  lastSend,        \* the ws.send()s made by the last handler: [type, room, to]
  lastOp,          \* the last handler that ran and whether a registry call in it threw
  joined,          \* history variable: connection -> the rooms it sent join_chat
                   \* for since it connected
  \* ---- ChatHistoryManager (chat-history.ts 16) and the arrays it owns
  histories,       \* chat id -> [messages: array reference, lastActivity]  (histories)
  heap,            \* array reference -> the array's elements, in order
  now,             \* Date.now()
  snapshots,       \* the arrays getHistory returned: <<[room, ref, expect]>>;
                   \* expect is the room's appended messages when it was called
  appended,        \* history variable: chat id -> every message addMessage was given
  keptFrom,        \* history variable: chat id -> how many of them eviction dropped
  lastAppendAt,    \* history variable: chat id -> time of the last addMessage
  \* ---- EmbeddingQueue (openai.ts 420-421) and its drain() invocations
  queue,           \* the FIFO of jobs                                      (queue)
  running,         \* the drain flag                                        (running)
  loops,           \* drain() invocations inside their while loop:
                   \* id -> [job, pc, left, vectors, failed]
  enqueued,        \* history variable: number of enqueue calls; job k is the k-th
  handed,          \* history variable: job ids in the order process() was called
  upserted,        \* history variable: job ids in the order pinecone.upsert succeeded
  failedJobs,      \* history variable: jobs whose process() threw
  finished,        \* history variable: jobs whose process() has returned or thrown
  \* ---- personalization retrieval of one turn (service.ts 258-378)
  ragResults,         \* what the general query returns                    (results)
  ragProfileResults,  \* what the profile query returns                    (profileResults)
  ragStage,           \* "query" | "done" | "failed"
  ragOut,             \* the locals after the merge: filtered, profileTop, finalList, ...
  \* ---- OrchestratorService and its processMessage invocations (service.ts 20-26)
  turns,              \* invocation -> its position, arguments and locals
  abortControllers,   \* chat id -> controller; a controller is named by the
                      \* invocation that created it          (abortControllers)
  aborted,            \* the controllers whose abort() was called
  chatLog,            \* chat id -> roles passed to chatHistory.addMessage, in order
  embedLog,           \* chat id -> jobs passed to embeddingQueue.enqueue, in order:
                      \* [role, userId, turn, job]
  \* ---- DocumentRetrievalService and one querySelectedDocuments invocation
  docCall             \* its position, arguments, the queries it made and its locals

regVars == <<readyState, clients, rooms, roomUsers, lastSend, lastOp, joined>>

histVars == <<histories, heap, now, snapshots, appended, keptFrom, lastAppendAt>>

queueVars == <<queue, running, loops, enqueued, handed, upserted, failedJobs, finished>>

ragVars == <<ragResults, ragProfileResults, ragStage, ragOut>>

turnVars == <<turns, abortControllers, aborted, chatLog, embedLog>>

docVars == <<docCall>>
vars == <<regVars, histVars, queueVars, ragVars, turnVars, docVars>>

\* What the actions of one component leave unchanged: the other components.
notRegistry == <<histVars, queueVars, ragVars, turnVars, docVars>>
notHistory == <<regVars, queueVars, ragVars, turnVars, docVars>>
notQueue == <<regVars, histVars, ragVars, turnVars, docVars>>
notRag == <<regVars, histVars, queueVars, turnVars, docVars>>
notDocs == <<regVars, histVars, queueVars, ragVars, turnVars>>
\* A turn reads and records the room's owner; the rest of the registry is not its business.
\* Its enqueue calls reach the embedding queue, whose calls it never settles.
notTurn == <<readyState, clients, rooms, lastSend, lastOp, joined, histVars, ragVars, docVars,
             upserted, failedJobs, finished>>

-----------------------------------------------------------------------------
(***************************************************************************)
(* WebSocketServer                                                         *)
(***************************************************************************)
Conns == 1 .. NumConns

\* req.socket.remoteAddress: connections 1 and 3 come from the same remote
\* address, connection 2 from another one, and so on alternately.  A
\* connection whose close was handled is gone ("none"); its number names the
\* next connection from that address.
addressOf(c) == ((c - 1) % 2) + 1

Addresses == {addressOf(c) : c \in Conns}

NoSend == [type |-> None, room |-> None, to |-> {}]

\* A JavaScript object or Map used as a dictionary is a function whose domain
\* is the set of keys present.
Has(m, k) == k \in DOMAIN m
Put(m, k, v) == [x \in DOMAIN m \cup {k} |-> IF x = k THEN v ELSE m[x]]
Del(m, k) == [x \in DOMAIN m \ {k} |-> m[x]]
EmptyMap == [x \in {} |-> None]

\* ws.readyState === WebSocket.OPEN
isOpen(c) == readyState[c] = "open"

\* sendMessage(ws, message): the set of sockets the message is written to.
sendMessage(c) == IF isOpen(c) THEN {c} ELSE {}

\* broadcastToRoom(roomId, message): the set of sockets the message is written to.
broadcastToRoom(roomId) ==
  IF ~Has(rooms, roomId)
    THEN {}
    ELSE {clients[a].ws : a \in {b \in rooms[roomId] : Has(clients, b) /\ isOpen(clients[b].ws)}}

\* getUserIdForChat(chatId): None stands for undefined.
getUserIdForChat(chatId) == IF Has(roomUsers, chatId) THEN roomUsers[chatId] ELSE None

\* The registry's two maps, and whether the call that produced them threw.
Registry(cl, rm) == [clients |-> cl, rooms |-> rm, threw |-> FALSE]

\* joinRoom(address, roomId) on the registry reg.  Without the guard of line
\* 126 the member access on an undefined client throws a TypeError.
joinRoomUnguarded(reg, address, roomId) ==
  IF ~Has(reg.clients, address)
    THEN [reg EXCEPT !.threw = TRUE]
    ELSE Registry([reg.clients EXCEPT ![address].rooms = @ \cup {roomId}],
                  Put(reg.rooms, roomId,
                      (IF Has(reg.rooms, roomId) THEN reg.rooms[roomId] ELSE {}) \cup {address}))

\* Without the test of line 130 the room's member set is replaced.
joinRoomResetting(reg, address, roomId) ==
  IF ~Has(reg.clients, address)
    THEN reg
    ELSE Registry([reg.clients EXCEPT ![address].rooms = @ \cup {roomId}],
                  Put(reg.rooms, roomId, {address}))

joinRoomIn(reg, address, roomId) ==
  IF ~Has(reg.clients, address)
    THEN reg
    ELSE Registry([reg.clients EXCEPT ![address].rooms = @ \cup {roomId}],
                  Put(reg.rooms, roomId,
                      (IF Has(reg.rooms, roomId) THEN reg.rooms[roomId] ELSE {}) \cup {address}))

\* joinRoom(address, roomId): the registry after the call.
joinRoom(address, roomId) == joinRoomIn(Registry(clients, rooms), address, roomId)

\* The JoinChat case of handleMessage: the owner map after a join-room frame
\* carrying userId (None: the frame carries no user id).
joinChatOwner(roomId, userId) ==
  IF userId # None
    THEN Put(roomUsers, roomId, userId)
    ELSE roomUsers

\* handleChatMessage: the owner map after a chat-message frame.
chatMessageOwner(roomId, userId) ==
  IF userId # None /\ ~Has(roomUsers, roomId)
    THEN Put(roomUsers, roomId, userId)
    ELSE roomUsers

RECURSIVE leaveAll(_, _, _)
\* The forEach of cleanup: the address is deleted from every room of the
\* client's room set; a room left empty loses its entry.
leaveAll(rm, mine, address) ==
  IF mine = {}
    THEN rm
    ELSE LET r == CHOOSE x \in mine : TRUE
             after == IF Has(rm, r)
                        THEN (IF rm[r] \ {address} = {}
                                THEN Del(rm, r)
                                ELSE [rm EXCEPT ![r] = @ \ {address}])
                        ELSE rm
         IN leaveAll(after, mine \ {r}, address)

\* cleanup(address): the registry's two maps after the call.
cleanup(address) ==
  IF ~Has(clients, address)
    THEN Registry(clients, rooms)
    ELSE Registry(Del(clients, address),
                  leaveAll(rooms, clients[address].rooms, address))

Handled(name) == [name |-> name, threw |-> FALSE]

InitRegistry ==
  /\ readyState = [c \in Conns |-> "none"]
  /\ clients = EmptyMap
  /\ rooms = EmptyMap
  /\ roomUsers = EmptyMap
  /\ lastSend = NoSend
  /\ lastOp = Handled(None)
  /\ joined = [c \in Conns |-> {}]

\* server.on('connection'): the client is registered under its remote address
\* and the welcome message is sent.
Connect(c) ==
  /\ readyState[c] = "none"
  /\ readyState' = [readyState EXCEPT ![c] = "open"]
  /\ clients' = Put(clients, addressOf(c), [ws |-> c, rooms |-> {}])
  /\ lastSend' = [type |-> "connection_established", room |-> None, to |-> {c}]
  /\ lastOp' = Handled("connection")
  /\ UNCHANGED <<rooms, roomUsers, joined>>
  /\ UNCHANGED notRegistry

\* ws.on('message') with a join_chat frame {chat_id, user_id?}.  What
\* handleMessage throws is caught at line 75 and answered with an error event.
JoinChatFrame(c, roomId, userId) ==
  /\ isOpen(c)
  /\ LET j == joinRoom(addressOf(c), roomId)
     IN /\ clients' = j.clients
        /\ rooms' = j.rooms
        /\ roomUsers' = IF j.threw THEN roomUsers ELSE joinChatOwner(roomId, userId)
        /\ lastSend' = IF j.threw
                         THEN [type |-> "error", room |-> None, to |-> sendMessage(c)]
                         ELSE NoSend
        /\ lastOp' = [name |-> "join_chat", threw |-> j.threw]
  /\ joined' = [joined EXCEPT ![c] = @ \cup {roomId}]
  /\ UNCHANGED readyState
  /\ UNCHANGED notRegistry

\* ws.on('message') with a chat_message frame: the owner is associated and
\* the message_received event is broadcast.  The call that follows for a user
\* message, messageHandler.handleUserMessage, goes to the injected handler
\* (OrchestratorService.processMessage, SpecTurn) and changes nothing here.
ChatMessageFrame(c, roomId, userId) ==
  /\ isOpen(c)
  /\ roomUsers' = chatMessageOwner(roomId, userId)
  /\ lastSend' = [type |-> "message_received", room |-> roomId, to |-> broadcastToRoom(roomId)]
  /\ lastOp' = Handled("chat_message")
  /\ UNCHANGED <<readyState, clients, rooms, joined>>
  /\ UNCHANGED notRegistry

\* ws.on('message') with a stop_generation frame: messageHandler.handleStop
\* (OrchestratorService.cancel, SpecTurn); nothing of the registry changes.
StopGenerationFrame(c, roomId) ==
  /\ isOpen(c)
  /\ lastSend' = NoSend
  /\ lastOp' = Handled("stop_generation")
  /\ UNCHANGED <<readyState, clients, rooms, roomUsers, joined>>
  /\ UNCHANGED notRegistry

\* Frames that are not an envelope {type, payload, timestamp, message_id}:
\* text that is not JSON, the JSON null, a JSON scalar (42, "x", true) and a
\* JSON object or array without a type.
MalformedFrames == {"notJson", "null", "scalar", "untyped"}

\* Line 72-73: JSON.parse throws on text that is not JSON; handleMessage
\* throws on null at message.type (line 97).  A scalar, or an object without
\* a type, has type undefined and takes the default branch (lines 121-122).
frameThrows(frame) == frame \in {"notJson", "null"}

\* ws.on('message') with a frame that is not an envelope: what is thrown is
\* caught at line 75 and answered with an error event to the sending socket.
MalformedFrame(c, frame) ==
  /\ isOpen(c)
  /\ lastSend' = IF frameThrows(frame)
                   THEN [type |-> "error", room |-> None, to |-> sendMessage(c)]
                   ELSE NoSend
  /\ lastOp' = Handled("malformed")
  /\ UNCHANGED <<readyState, clients, rooms, roomUsers, joined>>
  /\ UNCHANGED notRegistry

\* The socket starts its closing handshake: readyState is no longer OPEN, the
\* 'close' event has not been emitted yet.
BeginClose(c) ==
  /\ isOpen(c)
  /\ readyState' = [readyState EXCEPT ![c] = "closing"]
  /\ UNCHANGED <<clients, rooms, roomUsers, lastSend, lastOp, joined>>
  /\ UNCHANGED notRegistry

\* ws.on('close'): cleanup(address).
HandleClose(c) ==
  /\ readyState[c] \in {"open", "closing"}
  /\ readyState' = [readyState EXCEPT ![c] = "none"]
  /\ LET k == cleanup(addressOf(c))
     IN /\ clients' = k.clients
        /\ rooms' = k.rooms
        /\ lastOp' = [name |-> "close", threw |-> k.threw]
  /\ joined' = [joined EXCEPT ![c] = {}]
  /\ lastSend' = NoSend
  /\ UNCHANGED roomUsers
  /\ UNCHANGED notRegistry

NextRegistry ==
  \/ \E c \in Conns : Connect(c)
  \/ \E c \in Conns, r \in Rooms, u \in Users \cup {None} : JoinChatFrame(c, r, u)
  \/ \E c \in Conns, r \in Rooms, u \in Users \cup {None} : ChatMessageFrame(c, r, u)
  \/ \E c \in Conns, r \in Rooms : StopGenerationFrame(c, r)
  \/ \E c \in Conns, frame \in MalformedFrames : MalformedFrame(c, frame)
  \/ \E c \in Conns : BeginClose(c)
  \/ \E c \in Conns : HandleClose(c)

-----------------------------------------------------------------------------
(***************************************************************************)
(* ChatHistoryManager                                                      *)
(***************************************************************************)
\* private readonly CLEANUP_INTERVAL = 1000 * 60 * 60 (milliseconds)
CLEANUP_INTERVAL == 1000 * 60 * 60

\* The instants the clock takes: each multiple of the cleanup interval up to
\* the horizon, and the millisecond after it.
Times == {k * CLEANUP_INTERVAL + e : k \in 0 .. Horizon, e \in 0 .. 1}

\* ChatMessage values appended under SpecHistory.
Messages == {[role |-> "user", content |-> "q"], [role |-> "assistant", content |-> "a"]}

\* A new array: the reference of an object not yet on the heap.
newRef(h) == Cardinality(DOMAIN h) + 1

\* getHistory(chatId): [...history.messages], a new array holding the
\* elements of the room's array ([] when the room has no entry).  The result
\* is the heap after the call and the reference returned.
getHistoryLive(chatId) ==
  IF ~Has(histories, chatId)
    THEN [heap |-> Put(heap, newRef(heap), <<>>), ref |-> newRef(heap)]
    ELSE [heap |-> heap, ref |-> histories[chatId].messages]

getHistory(chatId) ==
  IF ~Has(histories, chatId)
    THEN [heap |-> Put(heap, newRef(heap), <<>>), ref |-> newRef(heap)]
    ELSE [heap |-> Put(heap, newRef(heap), heap[histories[chatId].messages]),
          ref  |-> newRef(heap)]

\* The elements of the array getHistory(chatId) returns.
historyOf(chatId) == getHistory(chatId).heap[getHistory(chatId).ref]

\* addMessage(chatId, message): the entry is created when absent, the message
\* is pushed onto the room's own array and lastActivity is set to Date.now().
addMessage(chatId, message) ==
  LET created == ~Has(histories, chatId)
      ref == IF created THEN newRef(heap) ELSE histories[chatId].messages
      h0 == IF created THEN Put(heap, ref, <<>>) ELSE heap
  IN [histories |-> Put(histories, chatId, [messages |-> ref, lastActivity |-> now]),
      heap      |-> [h0 EXCEPT ![ref] = Append(@, message)]]

\* cleanup(): the entries left after every chat whose lastActivity is more
\* than CLEANUP_INTERVAL old has been deleted.
historyCleanupAtInterval ==
  LET idsToDelete == {chatId \in DOMAIN histories :
                        now - histories[chatId].lastActivity >= CLEANUP_INTERVAL}
  IN [chatId \in DOMAIN histories \ idsToDelete |-> histories[chatId]]

historyCleanup ==
  LET idsToDelete == {chatId \in DOMAIN histories :
                        now - histories[chatId].lastActivity > CLEANUP_INTERVAL}
  IN [chatId \in DOMAIN histories \ idsToDelete |-> histories[chatId]]

\* The messages given to addMessage for the room that no eviction dropped,
\* in the order of the calls (history variables only).
appendedSinceEviction(chatId) ==
  SubSeq(appended[chatId], keptFrom[chatId] + 1, Len(appended[chatId]))

InitHistory ==
  /\ histories = EmptyMap
  /\ heap = EmptyMap
  /\ now = 0
  /\ snapshots = <<>>
  /\ appended = [r \in Rooms |-> <<>>]
  /\ keptFrom = [r \in Rooms |-> 0]
  /\ lastAppendAt = EmptyMap

TotalAppends == Len(appended["r1"]) + Len(appended["r2"])

\* A caller appends a message.
AddMessage(chatId, message) ==
  /\ TotalAppends < MaxAppends
  /\ LET a == addMessage(chatId, message)
     IN /\ histories' = a.histories
        /\ heap' = a.heap
  /\ appended' = [appended EXCEPT ![chatId] = Append(@, message)]
  /\ lastAppendAt' = Put(lastAppendAt, chatId, now)
  /\ UNCHANGED <<now, snapshots, keptFrom>>
  /\ UNCHANGED notHistory

\* A caller reads the history and keeps the array it was given.
GetHistory(chatId) ==
  /\ Len(snapshots) < MaxSnapshots
  /\ LET g == getHistory(chatId)
     IN /\ heap' = g.heap
        /\ snapshots' = Append(snapshots, [room |-> chatId, ref |-> g.ref,
                                           expect |-> appendedSinceEviction(chatId)])
  /\ UNCHANGED <<histories, now, appended, keptFrom, lastAppendAt>>
  /\ UNCHANGED notHistory

\* The setInterval callback of the constructor: cleanup().  The history
\* variable keptFrom follows the eviction rule as spec.md states it: a room's
\* log goes when now - lastActivity is more than one hour.
Cleanup ==
  /\ histories' = historyCleanup
  /\ keptFrom' = [r \in Rooms |->
                    IF Has(lastAppendAt, r) /\ now - lastAppendAt[r] > 60 * 60 * 1000
                      THEN Len(appended[r])
                      ELSE keptFrom[r]]
  /\ UNCHANGED <<heap, now, snapshots, appended, lastAppendAt>>
  /\ UNCHANGED notHistory

\* Time passes.
Tick(t) ==
  /\ t > now
  /\ now' = t
  /\ UNCHANGED <<histories, heap, snapshots, appended, keptFrom, lastAppendAt>>
  /\ UNCHANGED notHistory

NextHistory ==
  \/ \E r \in Rooms, m \in Messages : AddMessage(r, m)
  \/ \E r \in Rooms : GetHistory(r)
  \/ Cleanup
  \/ \E t \in Times : Tick(t)

-----------------------------------------------------------------------------
(***************************************************************************)
(* EmbeddingQueue                                                          *)
(*                                                                         *)
(* drain() is an async function: it runs without interruption up to its    *)
(* next await and is resumed when the awaited call settles.  An invocation *)
(* that passed the running guard is a loop; pc says what it awaits:        *)
(*   "embed"    embedder.embed(chunk) inside process(job)                  *)
(*   "upsert"   pinecone.upsert inside process(job)                        *)
(*   "settled"  process(job) has returned or thrown; the continuation of   *)
(*              `await this.process(job)` has not run yet                  *)
(***************************************************************************)
\* The state of the queue object and what has happened to its jobs.
queueState ==
  [queue |-> queue, running |-> running, loops |-> loops, handed |-> handed]

newLoop(q) == CHOOSE l \in 1 .. Cardinality(DOMAIN q.loops) + 1 : ~Has(q.loops, l)

\* process(job) is run to its end before the caller goes on: the embedding
\* and the upsert have been waited for.
processToEnd(job) ==
  [job |-> job.id, pc |-> "settled", left |-> 0, vectors |-> job.chunks, failed |-> FALSE]

\* process(job) up to its first await: blank content returns at once (line
\* 458); otherwise the first chunk's embedding is requested.
processStart(job) ==
  IF job.chunks = 0
    THEN [job |-> job.id, pc |-> "settled", left |-> 0, vectors |-> 0, failed |-> FALSE]
    ELSE [job |-> job.id, pc |-> "embed", left |-> job.chunks, vectors |-> 0, failed |-> FALSE]

\* The while loop of drain() from its test to the next await, in loop l: the
\* head of the queue is shifted and handed to process(); with an empty queue
\* the finally block clears the flag and the invocation ends.
whileStep(q, l) ==
  IF Len(q.queue) > 0
    THEN [q EXCEPT !.queue = Tail(@),
                   !.handed = Append(@, Head(q.queue).id),
                   !.loops = Put(@, l, processStart(Head(q.queue)))]
    ELSE [q EXCEPT !.running = FALSE, !.loops = Del(@, l)]

\* drain(): returns at once when the flag is set; otherwise sets it and
\* enters the while loop.
drainUnguarded(q) ==
  whileStep([q EXCEPT !.running = TRUE], newLoop(q))

drain(q) ==
  IF q.running
    THEN q
    ELSE whileStep([q EXCEPT !.running = TRUE], newLoop(q))

\* The job is put in front of the waiting jobs.
enqueueFirst(q, job) == drain([q EXCEPT !.queue = <<job>> \o @])

\* The job is pushed and no drain is started.
enqueueOnly(q, job) == [q EXCEPT !.queue = Append(@, job)]

\* enqueue(job): push, then drain().
enqueue(q, job) == drain([q EXCEPT !.queue = Append(@, job)])

\* The continuation of `await this.process(job)` in loop l: the result is
\* logged (try) or the failure is logged (catch), and the loop goes on.
afterProcessHalting(q, l) ==
  IF q.loops[l].failed
    THEN [q EXCEPT !.running = FALSE, !.loops = Del(@, l)]
    ELSE whileStep(q, l)

afterProcess(q, l) == whileStep(q, l)

InitQueue ==
  /\ queue = <<>>
  /\ running = FALSE
  /\ loops = EmptyMap
  /\ enqueued = 0
  /\ handed = <<>>
  /\ upserted = <<>>
  /\ failedJobs = {}
  /\ finished = {}

\* A caller enqueues a job whose content chunkText cuts into n chunks (none
\* for blank content).
Enqueue(n) ==
  /\ enqueued < MaxJobs
  /\ LET q == enqueue(queueState, [id |-> enqueued + 1, chunks |-> n])
     IN /\ queue' = q.queue
        /\ running' = q.running
        /\ loops' = q.loops
        /\ handed' = q.handed
  /\ enqueued' = enqueued + 1
  /\ UNCHANGED <<upserted, failedJobs, finished>>
  /\ UNCHANGED notQueue

\* embedder.embed(chunk) settles in loop l: with a vector (pushed onto
\* vectors), with an empty embedding (the chunk is skipped) or by throwing
\* (process() throws).  After the last chunk the batch is upserted, or
\* process() returns when there is nothing to upsert.
EmbedSettles(l, outcome) ==
  /\ Has(loops, l)
  /\ loops[l].pc = "embed"
  /\ LET st == loops[l]
         vectors == IF outcome = "vector" THEN st.vectors + 1 ELSE st.vectors
     IN loops' =
          [loops EXCEPT ![l] =
             IF outcome = "throw"
               THEN [st EXCEPT !.pc = "settled", !.failed = TRUE]
               ELSE IF st.left > 1
                 THEN [st EXCEPT !.left = @ - 1, !.vectors = vectors]
                 ELSE IF vectors > 0
                   THEN [st EXCEPT !.pc = "upsert", !.left = 0, !.vectors = vectors]
                   ELSE [st EXCEPT !.pc = "settled", !.left = 0, !.vectors = vectors]]
  /\ failedJobs' = IF outcome = "throw" THEN failedJobs \cup {loops[l].job} ELSE failedJobs
  /\ UNCHANGED <<queue, running, enqueued, handed, upserted, finished>>
  /\ UNCHANGED notQueue

\* pinecone.upsert settles in loop l.
UpsertSettles(l, ok) ==
  /\ Has(loops, l)
  /\ loops[l].pc = "upsert"
  /\ loops' = [loops EXCEPT ![l].pc = "settled", ![l].failed = ~ok]
  /\ upserted' = IF ok THEN Append(upserted, loops[l].job) ELSE upserted
  /\ failedJobs' = IF ok THEN failedJobs ELSE failedJobs \cup {loops[l].job}
  /\ UNCHANGED <<queue, running, enqueued, handed, finished>>
  /\ UNCHANGED notQueue

\* drain() resumes in loop l after process(job).
DrainResumes(l) ==
  /\ Has(loops, l)
  /\ loops[l].pc = "settled"
  /\ LET q == afterProcess(queueState, l)
     IN /\ queue' = q.queue
        /\ running' = q.running
        /\ loops' = q.loops
        /\ handed' = q.handed
  /\ finished' = finished \cup {loops[l].job}
  /\ UNCHANGED <<enqueued, upserted, failedJobs>>
  /\ UNCHANGED notQueue

LoopIds == 1 .. MaxJobs

QueueStep ==
  \/ \E l \in LoopIds, o \in {"vector", "empty", "throw"} : EmbedSettles(l, o)
  \/ \E l \in LoopIds, ok \in BOOLEAN : UpsertSettles(l, ok)
  \/ \E l \in LoopIds : DrainResumes(l)

NextQueue ==
  \/ \E n \in 0 .. MaxJobChunks : Enqueue(n)
  \/ \E l \in LoopIds, o \in {"vector", "empty", "throw"} : EmbedSettles(l, o)
  \/ \E l \in LoopIds, ok \in BOOLEAN : UpsertSettles(l, ok)
  \/ \E l \in LoopIds : DrainResumes(l)

-----------------------------------------------------------------------------
(***************************************************************************)
(* Personalization retrieval: merge, threshold, profile facts              *)
(*                                                                         *)
(* A match is [id, score, isProfile]; scores are in tenths (3 is 0.3).     *)
(* JavaScript arrays are sequences; a Map is the sequence of its values in *)
(* insertion order, since that is the order Array.from(map.values())       *)
(* yields.                                                                 *)
(***************************************************************************)
topK == 15          \* const topK = 15
profileTopK == 10   \* topK: 10 of the profile query
threshold == 3      \* const threshold = 0.3, in tenths

Scores == {2, 3, 4}
FillerIds == 1 .. topK
PlainIds == {21}
ProfileIds == {31, 32, 33, 34}

Match(id, score) == [id |-> id, score |-> score, isProfile |-> id \in ProfileIds]

Min(a, b) == IF a < b THEN a ELSE b

slice(seq, n) == SubSeq(seq, 1, Min(n, Len(seq)))

indexOfId(seq, id) ==
  IF \E i \in 1 .. Len(seq) : seq[i].id = id
    THEN CHOOSE i \in 1 .. Len(seq) : seq[i].id = id
    ELSE 0

\* for (const m of merged) { prev = bestById.get(m.id);
\*   if (!prev || m.score > prev.score) bestById.set(m.id, m) }
\* Map.set on a present key keeps the key's position.
RECURSIVE bestById(_, _)
bestById(merged, acc) ==
  IF merged = <<>> THEN acc
  ELSE LET m == Head(merged)
           i == indexOfId(acc, m.id)
       IN bestById(Tail(merged),
                   IF i = 0 THEN Append(acc, m)
                   ELSE IF m.score > acc[i].score THEN [acc EXCEPT ![i] = m]
                   ELSE acc)

\* [...].forEach(m => finalMap.set(m.id, m))
RECURSIVE finalMap(_, _)
finalMap(list, acc) ==
  IF list = <<>> THEN acc
  ELSE LET m == Head(list)
           i == indexOfId(acc, m.id)
       IN finalMap(Tail(list),
                   IF i = 0 THEN Append(acc, m) ELSE [acc EXCEPT ![i] = m])

\* Array.prototype.sort((a, b) => b.score - a.score): stable, descending.
RECURSIVE insertDesc(_, _)
insertDesc(sorted, m) ==
  IF sorted = <<>> THEN <<m>>
  ELSE IF Head(sorted).score >= m.score
    THEN <<Head(sorted)>> \o insertDesc(Tail(sorted), m)
    ELSE <<m>> \o sorted

RECURSIVE sortDesc(_)
sortDesc(seq) ==
  IF seq = <<>> THEN <<>>
  ELSE insertDesc(sortDesc(SubSeq(seq, 1, Len(seq) - 1)), seq[Len(seq)])

passesThreshold(r) == r.score >= threshold

\* Lines 308-313.  The fallback sorts deduped in place, so the array the
\* later statements see is returned with the selection.
thresholdSelectUnsorted(deduped) ==
  LET filtered == SelectSeq(deduped, passesThreshold)
  IN IF Len(filtered) < 3
       THEN [filtered |-> slice(deduped, Min(3, Len(deduped))), deduped |-> deduped]
       ELSE [filtered |-> filtered, deduped |-> deduped]

thresholdSelect(deduped) ==
  LET filtered == SelectSeq(deduped, passesThreshold)
  IN IF Len(filtered) < 3
       THEN [filtered |-> slice(sortDesc(deduped), Min(3, Len(deduped))),
             deduped |-> sortDesc(deduped)]
       ELSE [filtered |-> filtered, deduped |-> deduped]

isProfileMatch(r) == r.isProfile

\* Lines 298-323 for the two query results.
mergeResults(results, profileResults) ==
  LET merged == results \o profileResults
      sel == thresholdSelect(bestById(merged, <<>>))
      profileTop == slice(sortDesc(SelectSeq(sel.deduped, isProfileMatch)), 3)
      finalList == slice(finalMap(sel.filtered \o profileTop, <<>>), topK)
  IN [filtered |-> sel.filtered, profileTop |-> profileTop,
      finalList |-> finalList, context |-> Len(finalList) > 0]

NoRetrieval ==
  [filtered |-> <<>>, profileTop |-> <<>>, finalList |-> <<>>, context |-> FALSE]

\* What a Pinecone query can return: at most topK matches with distinct
\* ids, best score first.
IsQueryResult(seq, k) ==
  /\ Len(seq) <= k
  /\ \A i, j \in 1 .. Len(seq) : i < j => (seq[i].id # seq[j].id /\ seq[i].score >= seq[j].score)

SeqsUpTo(S, n) == UNION {[1 .. k -> S] : k \in 0 .. n}

Filler(k) == [i \in 1 .. k |-> Match(i, 4)]

FillerCounts == {0, topK - MaxTail, topK}

TailMatches == {Match(id, sc) : id \in PlainIds \cup ProfileIds, sc \in Scores}

ProfileMatches == {Match(id, sc) : id \in ProfileIds, sc \in Scores}

GeneralResults ==
  {r \in {Filler(k) \o tail : k \in FillerCounts, tail \in SeqsUpTo(TailMatches, MaxTail)} :
     IsQueryResult(r, topK)}

ProfileResults ==
  {r \in SeqsUpTo(ProfileMatches, MaxProfile) : IsQueryResult(r, profileTopK)}

InitRag ==
  /\ ragResults = <<>>
  /\ ragProfileResults = <<>>
  /\ ragStage = "query"
  /\ ragOut = NoRetrieval

\* The general query (line 281) returns; the profile query is issued.
GeneralQueryReturns(results) ==
  /\ ragStage = "query"
  /\ ragStage' = "profileQuery"
  /\ ragResults' = results
  /\ UNCHANGED <<ragProfileResults, ragOut>>
  /\ UNCHANGED notRag

\* An embed call or the general query throws (outer catch, line 375): the
\* turn goes on without retrieval context.
GeneralQueryFails ==
  /\ ragStage = "query"
  /\ ragStage' = "failed"
  /\ UNCHANGED <<ragResults, ragProfileResults, ragOut>>
  /\ UNCHANGED notRag

\* The profile query (line 290) returns; lines 298-323 run.
ProfileQueryReturns(profileResults) ==
  /\ ragStage = "profileQuery"
  /\ ragStage' = "done"
  /\ ragProfileResults' = profileResults
  /\ ragOut' = mergeResults(ragResults, profileResults)
  /\ UNCHANGED ragResults
  /\ UNCHANGED notRag

\* The profile query throws (inner catch, line 296): profileResults stays [].
ProfileQueryFails ==
  /\ ragStage = "profileQuery"
  /\ ragStage' = "done"
  /\ ragOut' = mergeResults(ragResults, <<>>)
  /\ UNCHANGED <<ragResults, ragProfileResults>>
  /\ UNCHANGED notRag

NextRag ==
  \/ \E results \in GeneralResults : GeneralQueryReturns(results)
  \/ GeneralQueryFails
  \/ \E profileResults \in ProfileResults : ProfileQueryReturns(profileResults)
  \/ ProfileQueryFails

-----------------------------------------------------------------------------
(***************************************************************************)
(* OrchestratorService: processMessage and cancel                          *)
(*                                                                         *)
(* processMessage is an async function; an invocation (a turn) runs        *)
(* without interruption up to its next await, and pc names the call it     *)
(* awaits.  The collaborators are stubbed: the calls made to chatHistory   *)
(* and embeddingQueue are logged, the events handed to                     *)
(* wsServer.broadcastToRoom are noted on the turn, and the embedder, the   *)
(* vector index, the tools and the model answer with any outcome.  A       *)
(* message text is the sequence of its words.                              *)
(***************************************************************************)
Contents == {<<>>, <<"hello">>, <<"Summarize", "it">>}

toLowerCase(w) == IF w = "Summarize" THEN "summarize" ELSE w

DocTaskWords ==
  {"summarize", "summary", "summarise", "explain", "analyze", "analyse",
   "document", "doc", "pdf", "csv", "xlsx", "txt"}

\* Lines 424-427.
looksLikeDocTask(content) ==
  \E i \in 1 .. Len(content) : toLowerCase(content[i]) \in DocTaskWords

hasSelectedDocs(docs) == docs > 0

shouldUseFunctions(content, docs) == ~(looksLikeDocTask(content) \/ hasSelectedDocs(docs))

\* The functions declared to the model (openai.ts 10-16); executeFunction has
\* no case for getPublisherDetails.
ToolNames ==
  {"browsePublishers", "getPublisherDetails", "viewCart", "addToCart", "processPayment"}

\* The args of a functionCall part are what JSON.parse made of the model's
\* text: a dictionary in which any property may be missing.
BaseItem == [type |-> "publisher", name |-> "n1", price |-> 5]

QuantityArgs == {BaseItem} \cup {Put(BaseItem, "quantity", q) : q \in {0, 2}}

AddToCartArgs == QuantityArgs \cup {Put(a, "metadata", "md1") : a \in QuantityArgs}

ProcessPaymentArgs == {EmptyMap, [cartItems |-> <<[price |-> 5, quantity |-> 2]>>]}

ToolArgs(name) ==
  IF name = "addToCart" THEN AddToCartArgs
  ELSE IF name = "processPayment" THEN ProcessPaymentArgs
  ELSE {EmptyMap}

ToolCalls == {[name |-> n, args |-> a] : n \in ToolNames, a \in UNION {ToolArgs(x) : x \in ToolNames}}
               \cap UNION {{[name |-> n, args |-> a] : a \in ToolArgs(n)} : n \in ToolNames}

\* What the publisher search comes back with: it fails, or returns a list.
PublisherLists == {<<>>, <<"p1">>, <<"p1", "p2">>}

ToolOutcomes(name) ==
  IF name = "browsePublishers"
    THEN {[ok |-> FALSE]} \cup {[ok |-> TRUE, publishers |-> l] : l \in PublisherLists}
    ELSE {[ok |-> TRUE]}

AllToolOutcomes == UNION {ToolOutcomes(n) : n \in ToolNames}

\* browsePublishers (publishers.ts 116-200): the summary is a sentence giving
\* the number found and two averages.
browsePublishers(args, publishers) ==
  [publishers |-> publishers, totalCount |-> Len(publishers), filters |-> args,
   summary |-> [found |-> Len(publishers)]]

\* cartArgs.quantity || 1
quantityOrOne(args) == IF Has(args, "quantity") /\ args.quantity # 0 THEN args.quantity ELSE 1

\* The item of the cart_updated event (lines 776-782): a property the args
\* lack is undefined and so absent from the event.
cartItem(args) ==
  LET core == [type |-> args.type, name |-> args.name, price |-> args.price,
               quantity |-> quantityOrOne(args)]
  IN IF Has(args, "metadata") THEN Put(core, "metadata", args.metadata) ELSE core

RECURSIVE totalAmount(_)
totalAmount(items) ==
  IF items = <<>> THEN 0
  ELSE Head(items).price * Head(items).quantity + totalAmount(Tail(items))

\* The result returned to the model when the tool's failure is caught, or
\* the name is unknown (lines 689-694 and 831-836).
errorResult(name, message) ==
  [error |-> TRUE, function |-> name, message |-> message, details |-> "details"]

\* The whole search result handed back to the model.
browseResultFull(result) == result

\* Lines 682-686: only the summary and the count go back to the model.
browseResult(result) ==
  [summary |-> result.summary, count |-> result.totalCount, message |-> "sent"]

\* executeFunction(functionCall, chatId, wsServer): the events it broadcasts
\* to the room, in order, and either the value it returns or the fact that
\* it threw.  The cart of the frame is not modelled (no cartData).
executeFunction(name, args, outcome) ==
  IF name = "browsePublishers"
    THEN IF outcome.ok
      THEN LET result == browsePublishers(args, outcome.publishers)
           IN [events |-> <<[type |-> "publishers_data", publishers |-> result.publishers,
                             totalCount |-> result.totalCount]>>,
               threw |-> FALSE, result |-> browseResult(result)]
      ELSE [events |-> <<>>, threw |-> FALSE, result |-> errorResult(name, "failed")]
  ELSE IF name = "viewCart"
    THEN [events |-> <<[type |-> "cart_data", action |-> "show", totalItems |-> 0]>>,
          threw |-> FALSE,
          result |-> [summary |-> [totalItems |-> 0, isEmpty |-> TRUE], message |-> "empty"]]
  ELSE IF name = "addToCart"
    THEN [events |-> <<[type |-> "cart_updated", action |-> "add", item |-> cartItem(args)]>>,
          threw |-> FALSE,
          result |-> [success |-> TRUE, message |-> "added",
                      item |-> [name |-> args.name, price |-> args.price,
                                quantity |-> quantityOrOne(args)]]]
  ELSE IF name = "processPayment"
    THEN IF Has(args, "cartItems")
      THEN [events |-> <<[type |-> "cart_data", action |-> "checkout",
                          cartItems |-> args.cartItems]>>,
            threw |-> FALSE,
            result |-> [success |-> TRUE, message |-> "initiated",
                        totalAmount |-> totalAmount(args.cartItems),
                        itemCount |-> Len(args.cartItems)]]
      \* line 821: paymentArgs.cartItems is undefined and .reduce throws
      ELSE [events |-> <<[type |-> "cart_data", action |-> "checkout"]>>,
            threw |-> TRUE, result |-> EmptyMap]
  ELSE [events |-> <<>>, threw |-> FALSE, result |-> errorResult(name, "unknown")]

\* executeFunction catches the failures of browsePublishers itself; the
\* ProcessPayment case dereferences its arguments unguarded.
mayThrow(name, args) == \E o \in ToolOutcomes(name) : executeFunction(name, args, o).threw

\* What openai.call returns, by the parts it builds (openai.ts 344-368): a
\* text part when message.content is truthy ("blank": only whitespace), then
\* one functionCall part per tool call.  chunks: the 5-word chunks of the text.
Responses ==
  {[text |-> "none", chunks |-> 0, calls |-> c] : c \in SeqsUpTo(ToolCalls, MaxToolCalls)}
    \cup {[text |-> "blank", chunks |-> 0, calls |-> c] : c \in SeqsUpTo(ToolCalls, MaxToolCalls)}
    \cup {[text |-> "text", chunks |-> n, calls |-> c] :
            n \in 1 .. MaxChunks, c \in SeqsUpTo(ToolCalls, MaxToolCalls)}

\* The summary and the recovery handling read the text parts only.
TextResponses == {resp \in Responses : resp.calls = <<>>}

\* The invocations of processMessage, numbered in the order of their frames.
TurnIds == 1 .. MaxConcurrentTurns

SoloTurnIds == 1 .. MaxTurns

IdleTurn ==
  [pc |-> "idle", room |-> None, content |-> <<>>, docs |-> 0, userId |-> None,
   emb |-> "none", after |-> "none", chunksLeft |-> 0, calls |-> <<>>,
   intent |-> FALSE, fn |-> None, args |-> EmptyMap, found |-> "none",
   \* what the turn has done so far
   useFunctions |-> "unset",       \* the tools flag of the first model call
   firstCall |-> "unset",          \* "pending" | "returned" | "canceled" | "failed"
   cancelled |-> FALSE,            \* cancel() hit while the first call was outstanding
   streamAfterCancel |-> FALSE,    \* a text_stream event was broadcast after that
   stoppedInTool |-> FALSE,        \* cancel() hit while executeFunction was awaited
   stoppedInContext |-> FALSE,     \* cancel() hit before the first model call was issued
   summaryAfterStop |-> FALSE,     \* the summary call was issued after that
   said |-> FALSE,                 \* a text_stream or error event was broadcast
   executed |-> {},                \* the tools executeFunction was called for
   events |-> <<>>,                \* the events executeFunction broadcast
   toolResult |-> EmptyMap,        \* the tool result pushed onto the conversation
   failed |-> {},                  \* the retrieval parts that threw
   context |-> {},                 \* the retrieval parts the system prompt draws on
   cause |-> None,                 \* the call whose failure entered the catch block
   recovery |-> "unset",           \* the recovery call: "pending" | "returned" | "failed"
   recoveryCalls |-> 0,            \* recovery calls issued
   recoveryTools |-> "unset",      \* the tools flag of the recovery call
   summaryTools |-> "unset",       \* the tools flag of the summary call
   modelCalls |-> 0,               \* model calls issued
   firstCallNo |-> 0,              \* the rank of its first model call among those issued
   trace |-> <<>>,                 \* the events broadcast to the room, in order
   errorEvents |-> 0]              \* error events broadcast

\* One invocation together with the service state it works on.
Machine(t) ==
  [id |-> t, turn |-> turns[t], chatLog |-> chatLog, embedLog |-> embedLog,
   controllers |-> abortControllers, owners |-> roomUsers, nextJob |-> enqueued + 1,
   firstCalls |-> Cardinality({u \in TurnIds : turns[u].firstCall # "unset"})]

ownerOf(m) == IF Has(m.owners, m.turn.room) THEN m.owners[m.turn.room] ELSE None

\* this.chatHistory.addMessage(chatId, {role, ...})
addToHistory(m, role) == [m EXCEPT !.chatLog[m.turn.room] = Append(@, [role |-> role])]

\* The user message is put in front of the room's messages.
addUserMessageFirst(m) ==
  [m EXCEPT !.chatLog[m.turn.room] = <<[role |-> "user", turn |-> m.id]>> \o @]

\* Line 128: the user message of the frame is appended.
addUserMessage(m) ==
  [m EXCEPT !.chatLog[m.turn.room] = Append(@, [role |-> "user", turn |-> m.id])]

\* Lines 498-502: the function message, JSON.stringify(toolResult) under the
\* tool's name.
addFunctionResult(m, name, result) ==
  [m EXCEPT !.chatLog[m.turn.room] =
     Append(@, [role |-> "function", name |-> name, content |-> result])]

\* this.embeddingQueue.enqueue({userId, chatId, role, ...}): the job is the
\* next one of the queue.
enqueueJob(m, role) ==
  [m EXCEPT !.embedLog[m.turn.room] =
              Append(@, [role |-> role, userId |-> ownerOf(m), turn |-> m.id, job |-> m.nextJob]),
            !.nextJob = @ + 1]

\* The message is enqueued whether the room has an owner or not.
enqueueEmbeddingUnguarded(m, role) == enqueueJob(m, role)

\* The guarded enqueue: const userId = getUserIdForChat(chatId); if (userId
\* && this.embeddingQueue) enqueue(...).
enqueueEmbedding(m, role) ==
  IF ownerOf(m) # None
    THEN enqueueJob(m, role)
    ELSE m

\* An event broadcast to the room: its type, and the tool or the text (the
\* "first" answer, the "summary", the "recovery" answer) it is about.
Event(type, of) == [type |-> type, of |-> of]

\* wsServer.broadcastToRoom(chatId, {type, ...})
emit(m, type, of) == [m EXCEPT !.turn.trace = Append(@, Event(type, of))]

\* sendErrorMessage
sendErrorMessage(m) ==
  emit([m EXCEPT !.turn.said = TRUE, !.turn.errorEvents = @ + 1], "error", "turn")

\* One text_stream event of streamTextResponse.
broadcastChunk(m) ==
  emit([m EXCEPT !.turn.said = TRUE,
                 !.turn.streamAfterCancel = @ \/ m.turn.cancelled],
       "text_stream", m.turn.after)

\* streamTextResponse up to its first await: the first chunk is broadcast,
\* then the 50 ms timer is awaited.
streamTextResponse(m, chunks, after) ==
  broadcastChunk([m EXCEPT !.turn.pc = "stream",
                           !.turn.chunksLeft = chunks - 1,
                           !.turn.after = after])

\* processMessage returns: the locals are gone.
finish(m) ==
  [m EXCEPT !.turn.pc = "done", !.turn.userId = None, !.turn.emb = "none",
            !.turn.after = "none", !.turn.chunksLeft = 0, !.turn.calls = <<>>,
            !.turn.intent = FALSE, !.turn.fn = None, !.turn.args = EmptyMap,
            !.turn.found = "none"]

\* The controller already stored for the room is kept.
issueFirstCallKeepingToken(m) ==
  [m EXCEPT !.controllers = IF Has(@, m.turn.room) THEN @ ELSE Put(@, m.turn.room, m.id),
            !.turn.pc = "firstCall",
            !.turn.emb = "none",
            !.turn.found = "none",
            !.turn.firstCall = "pending",
            !.turn.modelCalls = @ + 1,
            !.turn.firstCallNo = m.firstCalls + 1,
            !.turn.useFunctions =
               IF shouldUseFunctions(m.turn.content, m.turn.docs) THEN "enabled" ELSE "disabled"]

\* Lines 420-435: the controller is created and stored under the chat id, the
\* tools flag is computed and the first model call is issued.
issueFirstCall(m) ==
  [m EXCEPT !.controllers = Put(@, m.turn.room, m.id),
            !.turn.firstCallNo = m.firstCalls + 1,
            !.turn.pc = "firstCall",
            !.turn.emb = "none",
            !.turn.found = "none",
            !.turn.firstCall = "pending",
            !.turn.modelCalls = @ + 1,
            !.turn.useFunctions =
               IF shouldUseFunctions(m.turn.content, m.turn.docs) THEN "enabled" ELSE "disabled"]

\* The catch block up to its await (lines 572-594): the recovery call is
\* issued without tools.
issueRecoveryCall(m) ==
  [m EXCEPT !.turn.pc = "recoveryCall", !.turn.emb = "none", !.turn.after = "none",
            !.turn.chunksLeft = 0, !.turn.calls = <<>>, !.turn.intent = FALSE,
            !.turn.fn = None, !.turn.args = EmptyMap, !.turn.found = "none",
            !.turn.recovery = "pending",
            !.turn.recoveryCalls = @ + 1,
            !.turn.recoveryTools = "disabled",
            !.turn.modelCalls = @ + 1]

\* A statement of the outer try block (lines 126-571) throws outside every
\* inner try: control goes to the catch block of line 572.
throwToCatch(m, cause) == issueRecoveryCall([m EXCEPT !.turn.cause = cause])

\* A retrieval call whose failure nothing catches before line 572.
retrievalFailureUncaught(m, part) ==
  throwToCatch([m EXCEPT !.turn.failed = @ \cup {part}], part)

\* Lines 298-368 and 388-391: the matches of the two queries are merged and,
\* if any is left, the context section is added to the system prompt.
ragDone(m, generalFound, profileFound) ==
  issueFirstCall([m EXCEPT !.turn.context =
                     @ \cup (IF generalFound THEN {"general"} ELSE {})
                       \cup (IF profileFound THEN {"profile"} ELSE {})])

\* Line 259: retrieval runs for an identified user and a non-empty text.
enterRag(m) ==
  IF m.turn.userId # None /\ m.turn.content # <<>>
    THEN [m EXCEPT !.turn.pc = "ragEmbed", !.turn.emb = "none"]
    ELSE issueFirstCall(m)

\* A retrieval call throws: the catch of line 223 (document retrieval), of
\* line 375 (the embeddings and the general query) or of line 296 (the
\* profile query) logs it, and the turn goes on without that part.
retrievalFailure(m, part) ==
  LET marked == [m EXCEPT !.turn.failed = @ \cup {part}]
  IN IF part = "docs" THEN enterRag(marked)
     ELSE IF part = "profile" THEN ragDone(marked, m.turn.found = "matches", FALSE)
     ELSE issueFirstCall(marked)

\* Line 181.
enterDocs(m) ==
  IF hasSelectedDocs(m.turn.docs) /\ m.turn.userId # None /\ m.turn.content # <<>>
    THEN [m EXCEPT !.turn.pc = "docEmbed"]
    ELSE enterRag(m)

\* Lines 126-181: the user message is appended and enqueued for embedding,
\* the owner is read, and the first external call is issued.
processMessageStart(m) ==
  LET logged == addUserMessage(m)
      queued == IF m.turn.content # <<>> THEN enqueueEmbedding(logged, "user") ELSE logged
  IN enterDocs([queued EXCEPT !.turn.userId = ownerOf(m)])

\* Lines 456-464: sendFunctionCallMessage for every functionCall part, then
\* sendFunctionCallStartMessage for the last one.
announced(calls) ==
  [i \in 1 .. Len(calls) |-> Event("function_call", calls[i].name)]
    \o <<Event("function_call_start", calls[Len(calls)].name)>>

\* Lines 456-571 once the text part, if any, has been streamed: every
\* functionCall part is announced and the last one is kept; it is executed,
\* or the direct answer is stored.
afterTextPart(m) ==
  IF m.turn.calls # <<>>
    THEN [m EXCEPT !.turn.pc = "tool",
                   !.turn.fn = m.turn.calls[Len(m.turn.calls)].name,
                   !.turn.args = m.turn.calls[Len(m.turn.calls)].args,
                   !.turn.calls = <<>>,
                   !.turn.executed = @ \cup {m.turn.calls[Len(m.turn.calls)].name},
                   !.turn.trace = @ \o announced(m.turn.calls)]
    ELSE IF m.turn.intent
      THEN finish(enqueueEmbedding(addToHistory(m, "assistant"), "assistant"))
      ELSE finish(m)

\* Lines 437-460 for the response of the first call.
handleFirstResponse(m, resp) ==
  LET got == [m EXCEPT !.turn.firstCall = "returned", !.turn.calls = resp.calls]
  IN IF resp.text = "text"
       THEN streamTextResponse([got EXCEPT !.turn.intent = TRUE], resp.chunks, "first")
       ELSE afterTextPart(got)

\* Lines 513-545 and 596-608: a non-blank text part is streamed.
handleTextResponse(m, resp, after) ==
  IF resp.text = "text" THEN streamTextResponse(m, resp.chunks, after) ELSE finish(m)

\* Lines 940-946: the loop of streamTextResponse is over; text_stream_end is
\* broadcast.
closeStream(m) == emit(m, "text_stream_end", m.turn.after)

\* streamTextResponse has returned to the statement that awaited it.
afterStream(m) ==
  LET closed == closeStream(m)
  IN IF m.turn.after = "first" THEN afterTextPart(closed)
     ELSE IF m.turn.after = "summary"
       THEN finish(enqueueEmbedding(addToHistory(closed, "assistant"), "assistant"))
       ELSE finish(addToHistory(closed, "assistant"))

\* The events of executeFunction as they reach the room.
toolPayloads(name, events) == [i \in 1 .. Len(events) |-> Event(events[i].type, name)]

\* function_result is broadcast before the tool's own events.
toolEventsResultFirst(name, done) ==
  <<Event("function_result", name)>> \o toolPayloads(name, done.events)
    \o <<Event("function_call_end", name)>>

\* Lines 467-470 and 504: what executeFunction broadcast, then
\* function_call_end, then (after the history is written) function_result.
toolEvents(name, done) ==
  toolPayloads(name, done.events)
    \o <<Event("function_call_end", name), Event("function_result", name)>>

\* After executeFunction returned the model is called again with the tools
\* enabled, and its answer is handled like that of the first call.
afterToolLooping(m, done) ==
  LET said == [m EXCEPT !.turn.events = @ \o done.events,
                        !.turn.toolResult = done.result]
      logged == addFunctionResult(addToHistory(said, "assistant"), m.turn.fn, done.result)
  IN [logged EXCEPT !.turn.pc = "firstCall", !.turn.firstCall = "pending",
                    !.turn.modelCalls = @ + 1, !.turn.summaryTools = "enabled"]

\* Lines 469-511 after executeFunction returned: the rationale and the tool
\* result are pushed onto the conversation and appended to the history, and
\* the summary call is issued, without tools and without abort signal.
afterTool(m, done) ==
  LET said == [m EXCEPT !.turn.events = @ \o done.events,
                        !.turn.trace = @ \o toolEvents(m.turn.fn, done),
                        !.turn.toolResult = done.result]
      logged == addFunctionResult(addToHistory(said, "assistant"), m.turn.fn, done.result)
  IN [logged EXCEPT !.turn.pc = "summaryCall", !.turn.modelCalls = @ + 1,
                    !.turn.summaryTools = "disabled",
                    !.turn.summaryAfterStop = m.turn.stoppedInTool]

\* The recovery call is issued again instead of the error event.
recoveryRetried(m) ==
  IF m.turn.recoveryCalls < 2
    THEN issueRecoveryCall(m)
    ELSE finish(sendErrorMessage([m EXCEPT !.turn.recovery = "failed"]))

\* Lines 609-612: the recovery call threw; one error event, nothing more.
recoveryFailed(m) == finish(sendErrorMessage([m EXCEPT !.turn.recovery = "failed"]))

\* Every stored controller is aborted and forgotten.
cancelEvery(chatId) ==
  [aborted |-> aborted \cup {abortControllers[r] : r \in DOMAIN abortControllers},
   controllers |-> EmptyMap]

\* The tokens of all the room's turns are aborted, issued or not.
cancelRoomTurns(chatId) ==
  [aborted |-> aborted \cup {t \in TurnIds : turns[t].room = chatId},
   controllers |-> IF Has(abortControllers, chatId)
                     THEN Del(abortControllers, chatId)
                     ELSE abortControllers]

\* cancel(chatId): the controller stored under the chat id, if any, is
\* aborted and forgotten.
cancel(chatId) ==
  IF Has(abortControllers, chatId)
    THEN [aborted |-> aborted \cup {abortControllers[chatId]},
          controllers |-> Del(abortControllers, chatId)]
    ELSE [aborted |-> aborted, controllers |-> abortControllers]

InitTurn ==
  /\ turns = [t \in TurnIds |-> IdleTurn]
  /\ abortControllers = EmptyMap
  /\ aborted = {}
  /\ chatLog = [r \in Rooms |-> <<>>]
  /\ embedLog = [r \in Rooms |-> <<>>]

RECURSIVE enqueueAll(_, _, _)
\* this.embeddingQueue.enqueue({... content ...}) for n messages in a row, the
\* first being job number next; chunkText cuts a message into one chunk.
enqueueAll(q, next, n) ==
  IF n = 0 THEN q
  ELSE enqueueAll(enqueue(q, [id |-> next, chunks |-> 1]), next + 1, n - 1)

\* The invocation has run to its next await: its writes are those of the
\* service, and the messages it enqueued are those of the embedding queue.
Commit(m) ==
  /\ turns' = [turns EXCEPT ![m.id] = m.turn]
  /\ chatLog' = m.chatLog
  /\ embedLog' = m.embedLog
  /\ abortControllers' = m.controllers
  /\ LET n == m.nextJob - (enqueued + 1)
         q == enqueueAll(queueState, enqueued + 1, n)
     IN /\ queue' = q.queue
        /\ running' = q.running
        /\ loops' = q.loops
        /\ handed' = q.handed
        /\ enqueued' = enqueued + n
  /\ UNCHANGED aborted

At(t, pc) == turns[t].pc = pc

\* A chat-message frame with role user: handleChatMessage records the owner
\* (first wins) and awaits processMessage, which runs to its first await.
StartTurn(t, roomId, frameUserId, content, docs) ==
  /\ At(t, "idle")
  /\ \A u \in TurnIds : u < t => ~At(u, "idle")
  /\ roomUsers' = chatMessageOwner(roomId, frameUserId)
  /\ LET m == [Machine(t) EXCEPT !.owners = roomUsers',
                                 !.turn.room = roomId,
                                 !.turn.content = content,
                                 !.turn.docs = docs]
     IN Commit(processMessageStart(m))
  /\ UNCHANGED notTurn

\* embedder.embed of line 188 settles: with a vector (the document query is
\* issued), with an empty embedding, or by throwing (caught at line 223).
DocEmbedSettles(t, outcome) ==
  /\ At(t, "docEmbed")
  /\ Commit(IF outcome = "vector" THEN [Machine(t) EXCEPT !.turn.pc = "docQuery"]
            ELSE IF outcome = "throw" THEN retrievalFailure(Machine(t), "docs")
            ELSE enterRag(Machine(t)))
  /\ UNCHANGED roomUsers
  /\ UNCHANGED notTurn

\* querySelectedDocuments settles: with chunks (the document context is put
\* into the system prompt, lines 206-208 and 252-253), without, or by throwing.
DocQuerySettles(t, outcome) ==
  /\ At(t, "docQuery")
  /\ Commit(IF outcome = "matches"
              THEN enterRag([Machine(t) EXCEPT !.turn.context = @ \cup {"docs"}])
            ELSE IF outcome = "throw" THEN retrievalFailure(Machine(t), "docs")
            ELSE enterRag(Machine(t)))
  /\ UNCHANGED roomUsers
  /\ UNCHANGED notTurn

\* The embed calls of lines 275 and 278 settle.  A throw is caught at line
\* 375; an empty first embedding skips the queries (line 279).
RagEmbedSettles(t, outcome) ==
  /\ At(t, "ragEmbed") \/ At(t, "ragProfileEmbed")
  /\ Commit(IF outcome = "throw" THEN retrievalFailure(Machine(t), "general")
            ELSE IF At(t, "ragEmbed")
              THEN [Machine(t) EXCEPT !.turn.pc = "ragProfileEmbed", !.turn.emb = outcome]
              ELSE IF turns[t].emb = "vector"
                THEN [Machine(t) EXCEPT !.turn.pc = "ragQuery", !.turn.emb = "none"]
                ELSE issueFirstCall(Machine(t)))
  /\ UNCHANGED roomUsers
  /\ UNCHANGED notTurn

\* The queries of lines 281 and 290 settle.  A throw of the first is caught
\* at line 375, a throw of the second at line 296.
RagQuerySettles(t, outcome) ==
  /\ At(t, "ragQuery") \/ At(t, "ragProfileQuery")
  /\ Commit(IF At(t, "ragQuery")
              THEN IF outcome = "throw"
                THEN retrievalFailure(Machine(t), "general")
                ELSE [Machine(t) EXCEPT !.turn.pc = "ragProfileQuery", !.turn.found = outcome]
              ELSE IF outcome = "throw"
                THEN retrievalFailure(Machine(t), "profile")
                ELSE ragDone(Machine(t), turns[t].found = "matches", outcome = "matches"))
  /\ UNCHANGED roomUsers
  /\ UNCHANGED notTurn

\* The first model call returns.  An aborted request does not return.
FirstCallReturns(t, resp) ==
  /\ At(t, "firstCall")
  /\ t \notin aborted
  /\ Commit(handleFirstResponse(Machine(t), resp))
  /\ UNCHANGED roomUsers
  /\ UNCHANGED notTurn

\* The first model call throws: the request failed or was aborted.
FirstCallFails(t) ==
  /\ At(t, "firstCall")
  /\ Commit(throwToCatch(
       [Machine(t) EXCEPT !.turn.firstCall = IF t \in aborted THEN "canceled" ELSE "failed"],
       "firstCall"))
  /\ UNCHANGED roomUsers
  /\ UNCHANGED notTurn

\* The 50 ms timer of streamTextResponse fires: the next chunk is broadcast,
\* or text_stream_end is and the caller goes on.
StreamTimer(t) ==
  /\ At(t, "stream")
  /\ Commit(IF turns[t].chunksLeft > 0
              THEN [broadcastChunk(Machine(t)) EXCEPT !.turn.chunksLeft = @ - 1]
              ELSE afterStream(Machine(t)))
  /\ UNCHANGED roomUsers
  /\ UNCHANGED notTurn

\* executeFunction returns: the assistant and function messages are stored
\* and the summary call is issued, without tools and without abort signal.
ToolReturns(t, outcome) ==
  /\ At(t, "tool")
  /\ outcome \in ToolOutcomes(turns[t].fn)
  /\ ~executeFunction(turns[t].fn, turns[t].args, outcome).threw
  /\ Commit(afterTool(Machine(t), executeFunction(turns[t].fn, turns[t].args, outcome)))
  /\ UNCHANGED roomUsers
  /\ UNCHANGED notTurn

\* executeFunction throws: nothing between line 467 and line 572 catches it.
ToolThrows(t, outcome) ==
  /\ At(t, "tool")
  /\ outcome \in ToolOutcomes(turns[t].fn)
  /\ executeFunction(turns[t].fn, turns[t].args, outcome).threw
  /\ Commit(throwToCatch(
       [Machine(t) EXCEPT
          !.turn.events = @ \o executeFunction(turns[t].fn, turns[t].args, outcome).events,
          !.turn.trace = @ \o toolPayloads(turns[t].fn,
                                 executeFunction(turns[t].fn, turns[t].args, outcome).events)],
       "tool"))
  /\ UNCHANGED roomUsers
  /\ UNCHANGED notTurn

SummaryReturns(t, resp) ==
  /\ At(t, "summaryCall")
  /\ Commit(handleTextResponse(Machine(t), resp, "summary"))
  /\ UNCHANGED roomUsers
  /\ UNCHANGED notTurn

SummaryFails(t) ==
  /\ At(t, "summaryCall")
  /\ Commit(throwToCatch(Machine(t), "summaryCall"))
  /\ UNCHANGED roomUsers
  /\ UNCHANGED notTurn

RecoveryReturns(t, resp) ==
  /\ At(t, "recoveryCall")
  /\ Commit(handleTextResponse([Machine(t) EXCEPT !.turn.recovery = "returned"],
                               resp, "recovery"))
  /\ UNCHANGED roomUsers
  /\ UNCHANGED notTurn

\* The recovery call throws (line 609): the error event is sent.
RecoveryFails(t) ==
  /\ At(t, "recoveryCall")
  /\ Commit(recoveryFailed(Machine(t)))
  /\ UNCHANGED roomUsers
  /\ UNCHANGED notTurn

\* A stop_generation frame for the room: handleStop calls cancel.
StopGeneration(chatId) ==
  /\ aborted' = cancel(chatId).aborted
  /\ abortControllers' = cancel(chatId).controllers
  /\ turns' = [t \in TurnIds |->
                 IF Has(abortControllers, chatId) /\ abortControllers[chatId] = t
                      /\ At(t, "firstCall")
                   THEN [turns[t] EXCEPT !.cancelled = TRUE]
                   ELSE IF turns[t].room = chatId /\ At(t, "tool")
                     THEN [turns[t] EXCEPT !.stoppedInTool = TRUE]
                     ELSE IF turns[t].room = chatId /\ turns[t].firstCall = "unset"
                       THEN [turns[t] EXCEPT !.stoppedInContext = TRUE]
                       ELSE turns[t]]
  /\ UNCHANGED <<chatLog, embedLog, roomUsers>>
  /\ UNCHANGED <<queue, running, loops, enqueued, handed>>
  /\ UNCHANGED notTurn

\* Several frames in flight: the invocations interleave at their awaits.  The
\* frames carry the same text and no document, and the model answers with a
\* text, with a tool call that returns or with one that throws.
RoomResponses ==
  {resp \in Responses :
     /\ resp.chunks <= 1
     /\ resp.text # "blank"
     /\ resp.text = "text" <=> resp.calls = <<>>
     /\ \A i \in 1 .. Len(resp.calls) :
          resp.calls[i] \in {[name |-> "browsePublishers", args |-> EmptyMap],
                             [name |-> "processPayment", args |-> EmptyMap]}}

RoomTextResponses == RoomResponses \cap TextResponses

NextRooms ==
  \/ \E t \in TurnIds, r \in Rooms, u \in {None, "u1"} : StartTurn(t, r, u, <<"hello">>, 0)
  \/ \E t \in TurnIds, o \in {"vector", "throw"} : RagEmbedSettles(t, o)
  \/ \E t \in TurnIds, o \in {"matches", "throw"} : RagQuerySettles(t, o)
  \/ \E t \in TurnIds, resp \in RoomResponses : FirstCallReturns(t, resp)
  \/ \E t \in TurnIds : FirstCallFails(t)
  \/ \E t \in TurnIds : StreamTimer(t)
  \/ \E t \in TurnIds, o \in {[ok |-> FALSE], [ok |-> TRUE, publishers |-> <<"p1">>]} :
       ToolReturns(t, o)
  \/ \E t \in TurnIds : ToolThrows(t, [ok |-> TRUE])
  \/ \E t \in TurnIds, resp \in RoomTextResponses : SummaryReturns(t, resp)
  \/ \E t \in TurnIds : SummaryFails(t)
  \/ \E t \in TurnIds, resp \in RoomTextResponses : RecoveryReturns(t, resp)
  \/ \E t \in TurnIds : RecoveryFails(t)
  \/ \E r \in Rooms : StopGeneration(r)

NextTurn ==
  \/ \E t \in SoloTurnIds, r \in Rooms, u \in {None, "u1"}, c \in Contents, d \in 0 .. MaxDocs :
       StartTurn(t, r, u, c, d)
  \/ \E t \in SoloTurnIds, o \in {"vector", "empty", "throw"} : DocEmbedSettles(t, o)
  \/ \E t \in SoloTurnIds, o \in {"matches", "none", "throw"} : DocQuerySettles(t, o)
  \/ \E t \in SoloTurnIds, o \in {"vector", "empty", "throw"} : RagEmbedSettles(t, o)
  \/ \E t \in SoloTurnIds, o \in {"matches", "none", "throw"} : RagQuerySettles(t, o)
  \/ \E t \in SoloTurnIds, resp \in Responses : FirstCallReturns(t, resp)
  \/ \E t \in SoloTurnIds : FirstCallFails(t)
  \/ \E t \in SoloTurnIds : StreamTimer(t)
  \/ \E t \in SoloTurnIds, o \in AllToolOutcomes : ToolReturns(t, o)
  \/ \E t \in SoloTurnIds, o \in AllToolOutcomes : ToolThrows(t, o)
  \/ \E t \in SoloTurnIds, resp \in TextResponses : SummaryReturns(t, resp)
  \/ \E t \in SoloTurnIds : SummaryFails(t)
  \/ \E t \in SoloTurnIds, resp \in TextResponses : RecoveryReturns(t, resp)
  \/ \E t \in SoloTurnIds : RecoveryFails(t)
  \/ \E r \in Rooms : StopGeneration(r)

-----------------------------------------------------------------------------
(***************************************************************************)
(* Specifications                                                          *)
(***************************************************************************)
\* Every component as constructed.
------------------------------------------------------------------------------
(***************************************************************************)
(* DocumentRetrievalService                                                *)
(***************************************************************************)
topKPerDoc == 10     \* topKPerDoc: 10 of the call in processMessage
minScore == 15       \* minScore: 0.15 of the call in processMessage, in hundredths

DocumentIds == {"d1", "d2"}

\* A match of the vector store: its score in hundredths and the documentId
\* of its metadata, "" when the metadata has none.
DocMatches == [id : {1, 2}, score : {10, 20}, documentId : DocumentIds \cup {""}]

SelectedLists == SeqsUpTo(DocumentIds, MaxSelected)
MatchLists == SeqsUpTo(DocMatches, MaxMatches)

\* selectedDocuments.includes(docId)
includes(selectedDocuments, docId) ==
  \E i \in 1 .. Len(selectedDocuments) : selectedDocuments[i] = docId

\* Line 41: Math.max(20, topKPerDoc * selectedDocuments.length * 2)
totalTopK(selectedDocuments, perDoc) ==
  IF perDoc * Len(selectedDocuments) * 2 > 20
    THEN perDoc * Len(selectedDocuments) * 2
    ELSE 20

\* The fallback keeps every match the store returned.
keepAll(allMatches, selectedDocuments) == allMatches

\* Lines 79-86: the matches of the unfiltered query are filtered in memory by
\* documentId.
keepSelected(allMatches, selectedDocuments) ==
  LET isSelected(m) == m.documentId # "" /\ includes(selectedDocuments, m.documentId)
  IN SelectSeq(allMatches, isSelected)

RECURSIVE limitPerDoc(_, _, _)
\* Lines 122-139: for each selected id in turn, the chunks of that document,
\* best score first, at most topKPerDoc of them.
limitPerDoc(filtered, selectedDocuments, perDoc) ==
  IF selectedDocuments = <<>> THEN <<>>
  ELSE LET ofDoc(c) == c.documentId = Head(selectedDocuments)
           sorted == sortDesc(SelectSeq(filtered, ofDoc))
       IN SubSeq(sorted, 1, Min(perDoc, Len(sorted)))
            \o limitPerDoc(filtered, Tail(selectedDocuments), perDoc)

\* Lines 95-156: the chunks of the matches, those above the score threshold
\* limited per document; when none passes, the best ten of the selected
\* documents whatever their score.
selectChunks(matches, selectedDocuments, perDoc, least) ==
  LET ofSelected(c) == c.documentId # "" /\ includes(selectedDocuments, c.documentId)
      passes(c) == c.score >= least /\ ofSelected(c)
      limited == limitPerDoc(SelectSeq(matches, passes), selectedDocuments, perDoc)
      allFiltered == sortDesc(SelectSeq(matches, ofSelected))
  IN IF limited = <<>> /\ matches # <<>>
       THEN limited \o SubSeq(allFiltered, 1, Min(Min(10, Len(matches)), Len(allFiltered)))
       ELSE limited

\* The topKPerDoc and minScore a caller passes: those of processMessage, and
\* one result per document.
PerDocLimits == {1, topKPerDoc}
ScoreThresholds == {minScore}

IdleDocCall ==
  [pc |-> "idle", selectedDocuments |-> <<>>, topKPerDoc |-> 0, minScore |-> 0,
   queries |-> <<>>, returned |-> <<>>, matches |-> <<>>, result |-> <<>>, threw |-> FALSE]

InitDocs == docCall = IdleDocCall

\* Lines 31-55: querySelectedDocuments is called; with selected documents the
\* filtered query is issued.
QuerySelectedDocuments(selectedDocuments, perDoc, least) ==
  /\ docCall.pc = "idle"
  /\ docCall' =
       IF selectedDocuments = <<>>
         THEN [docCall EXCEPT !.pc = "done", !.topKPerDoc = perDoc, !.minScore = least]
         ELSE [docCall EXCEPT
                 !.pc = "filtered",
                 !.selectedDocuments = selectedDocuments,
                 !.topKPerDoc = perDoc,
                 !.minScore = least,
                 !.queries = <<[filter |-> TRUE,
                                topK |-> totalTopK(selectedDocuments, perDoc)]>>]
  /\ UNCHANGED notDocs

\* Lines 50-63, 95-156: the filtered query returns.
FilteredQueryReturns(matches) ==
  /\ docCall.pc = "filtered"
  /\ docCall' = [docCall EXCEPT
                   !.pc = "done",
                   !.returned = matches,
                   !.matches = matches,
                   !.result = selectChunks(matches, docCall.selectedDocuments,
                                           docCall.topKPerDoc, docCall.minScore)]
  /\ UNCHANGED notDocs

\* Lines 64-74: the filtered query fails; the query is issued again without
\* a filter and for twice as many matches.
FilteredQueryFails ==
  /\ docCall.pc = "filtered"
  /\ docCall' = [docCall EXCEPT
                   !.pc = "unfiltered",
                   !.queries = Append(@, [filter |-> FALSE,
                                          topK |-> totalTopK(docCall.selectedDocuments,
                                                             docCall.topKPerDoc) * 2])]
  /\ UNCHANGED notDocs

\* Lines 70-88, 95-156: the unfiltered query returns.
UnfilteredQueryReturns(allMatches) ==
  /\ docCall.pc = "unfiltered"
  /\ LET matches == keepSelected(allMatches, docCall.selectedDocuments)
     IN docCall' = [docCall EXCEPT
                      !.pc = "done",
                      !.returned = allMatches,
                      !.matches = matches,
                      !.result = selectChunks(matches, docCall.selectedDocuments,
                                              docCall.topKPerDoc, docCall.minScore)]
  /\ UNCHANGED notDocs

\* Lines 89-92: the unfiltered query fails too: return [].
UnfilteredQueryFails ==
  /\ docCall.pc = "unfiltered"
  /\ docCall' = [docCall EXCEPT !.pc = "failed", !.result = <<>>]
  /\ UNCHANGED notDocs

NextDocs ==
  \/ \E selectedDocuments \in SelectedLists, perDoc \in PerDocLimits, least \in ScoreThresholds :
       QuerySelectedDocuments(selectedDocuments, perDoc, least)
  \/ \E matches \in MatchLists : FilteredQueryReturns(matches)
  \/ FilteredQueryFails
  \/ \E allMatches \in MatchLists : UnfilteredQueryReturns(allMatches)
  \/ UnfilteredQueryFails

Init ==
  /\ InitRegistry
  /\ InitHistory
  /\ InitQueue
  /\ InitRag
  /\ InitTurn
  /\ InitDocs

SpecDocs == Init /\ [][NextDocs]_vars

SpecRegistry == Init /\ [][NextRegistry]_vars

SpecHistory == Init /\ [][NextHistory]_vars

SpecQueue == Init /\ [][NextQueue]_vars

SpecRag == Init /\ [][NextRag]_vars

SpecTurn == Init /\ [][NextTurn]_vars

\* The awaits of a turn: a retrieval call, a model call, the tool or the
\* stream timer settles.
TurnSettles ==
  \/ \E t \in SoloTurnIds, o \in {"vector", "empty", "throw"} : DocEmbedSettles(t, o)
  \/ \E t \in SoloTurnIds, o \in {"matches", "none", "throw"} : DocQuerySettles(t, o)
  \/ \E t \in SoloTurnIds, o \in {"vector", "empty", "throw"} : RagEmbedSettles(t, o)
  \/ \E t \in SoloTurnIds, o \in {"matches", "none", "throw"} : RagQuerySettles(t, o)
  \/ \E t \in SoloTurnIds, resp \in Responses : FirstCallReturns(t, resp)
  \/ \E t \in SoloTurnIds : FirstCallFails(t)
  \/ \E t \in SoloTurnIds : StreamTimer(t)
  \/ \E t \in SoloTurnIds, o \in AllToolOutcomes : ToolReturns(t, o)
  \/ \E t \in SoloTurnIds, o \in AllToolOutcomes : ToolThrows(t, o)
  \/ \E t \in SoloTurnIds, resp \in TextResponses : SummaryReturns(t, resp)
  \/ \E t \in SoloTurnIds : SummaryFails(t)
  \/ \E t \in SoloTurnIds, resp \in TextResponses : RecoveryReturns(t, resp)
  \/ \E t \in SoloTurnIds : RecoveryFails(t)

\* Every external call of a turn eventually returns or fails, and every
\* timer fires.
SpecTurnFair == Init /\ [][NextTurn]_vars /\ WF_vars(TurnSettles)

SpecRooms == Init /\ [][NextRooms]_vars

\* Turns of several rooms that answer with a text, and the embedding queue
\* their messages are enqueued in.
NextOrder ==
  \/ \E t \in TurnIds, r \in Rooms, u \in {None, "u1"} : StartTurn(t, r, u, <<"hello">>, 0)
  \/ \E t \in TurnIds : RagEmbedSettles(t, "throw")
  \/ \E t \in TurnIds, resp \in RoomTextResponses : FirstCallReturns(t, resp)
  \/ \E t \in TurnIds : StreamTimer(t)
  \/ \E l \in LoopIds, o \in {"vector", "throw"} : EmbedSettles(l, o)
  \/ \E l \in LoopIds, ok \in BOOLEAN : UpsertSettles(l, ok)
  \/ \E l \in LoopIds : DrainResumes(l)

SpecOrder == Init /\ [][NextOrder]_vars

\* One connection that joins rooms, and the turns of the chat-message frames;
\* the frames carry a user id or none.
NextOwners ==
  \/ Connect(1)
  \/ \E r \in Rooms, u \in Users \cup {None} : JoinChatFrame(1, r, u)
  \/ \E t \in SoloTurnIds, r \in Rooms, u \in Users \cup {None} :
       StartTurn(t, r, u, <<"hello">>, 0)
  \/ \E t \in SoloTurnIds : RagEmbedSettles(t, "throw")
  \/ \E t \in SoloTurnIds, resp \in RoomTextResponses : FirstCallReturns(t, resp)
  \/ \E t \in SoloTurnIds : StreamTimer(t)

SpecOwners == Init /\ [][NextOwners]_vars

\* Turns that answer with a text, and stop_generation frames for their rooms.
StopTurnSettles ==
  \/ \E t \in TurnIds, o \in {"vector", "throw"} : RagEmbedSettles(t, o)
  \/ \E t \in TurnIds, o \in {"matches", "throw"} : RagQuerySettles(t, o)
  \/ \E t \in TurnIds, resp \in RoomTextResponses : FirstCallReturns(t, resp)
  \/ \E t \in TurnIds : FirstCallFails(t)
  \/ \E t \in TurnIds : StreamTimer(t)
  \/ \E t \in TurnIds, resp \in RoomTextResponses : RecoveryReturns(t, resp)
  \/ \E t \in TurnIds : RecoveryFails(t)

NextStop ==
  \/ \E t \in TurnIds, r \in Rooms, u \in {None, "u1"} : StartTurn(t, r, u, <<"hello">>, 0)
  \/ \E t \in TurnIds, o \in {"vector", "throw"} : RagEmbedSettles(t, o)
  \/ \E t \in TurnIds, o \in {"matches", "throw"} : RagQuerySettles(t, o)
  \/ \E t \in TurnIds, resp \in RoomTextResponses : FirstCallReturns(t, resp)
  \/ \E t \in TurnIds : FirstCallFails(t)
  \/ \E t \in TurnIds : StreamTimer(t)
  \/ \E t \in TurnIds, resp \in RoomTextResponses : RecoveryReturns(t, resp)
  \/ \E t \in TurnIds : RecoveryFails(t)
  \/ \E r \in Rooms : StopGeneration(r)

\* Every call a turn awaits eventually returns or fails.
SpecStop == Init /\ [][NextStop]_vars /\ WF_vars(StopTurnSettles)

\* One turn and the embedding queue its messages are enqueued in.  The
\* turn's own calls settle; those of the queue may settle or not.
IngestTurnSettles ==
  \/ \E t \in SoloTurnIds, o \in {"vector", "throw"} : RagEmbedSettles(t, o)
  \/ \E t \in SoloTurnIds, o \in {"matches", "throw"} : RagQuerySettles(t, o)
  \/ \E t \in SoloTurnIds, resp \in RoomResponses : FirstCallReturns(t, resp)
  \/ \E t \in SoloTurnIds : FirstCallFails(t)
  \/ \E t \in SoloTurnIds : StreamTimer(t)
  \/ \E t \in SoloTurnIds, o \in {[ok |-> FALSE], [ok |-> TRUE, publishers |-> <<"p1">>]} :
       ToolReturns(t, o)
  \/ \E t \in SoloTurnIds : ToolThrows(t, [ok |-> TRUE])
  \/ \E t \in SoloTurnIds, resp \in RoomTextResponses : SummaryReturns(t, resp)
  \/ \E t \in SoloTurnIds : SummaryFails(t)
  \/ \E t \in SoloTurnIds, resp \in RoomTextResponses : RecoveryReturns(t, resp)
  \/ \E t \in SoloTurnIds : RecoveryFails(t)

NextIngest ==
  \/ \E t \in SoloTurnIds, r \in Rooms, u \in {None, "u1"} : StartTurn(t, r, u, <<"hello">>, 0)
  \/ \E t \in SoloTurnIds, o \in {"vector", "throw"} : RagEmbedSettles(t, o)
  \/ \E t \in SoloTurnIds, o \in {"matches", "throw"} : RagQuerySettles(t, o)
  \/ \E t \in SoloTurnIds, resp \in RoomResponses : FirstCallReturns(t, resp)
  \/ \E t \in SoloTurnIds : FirstCallFails(t)
  \/ \E t \in SoloTurnIds : StreamTimer(t)
  \/ \E t \in SoloTurnIds, o \in {[ok |-> FALSE], [ok |-> TRUE, publishers |-> <<"p1">>]} :
       ToolReturns(t, o)
  \/ \E t \in SoloTurnIds : ToolThrows(t, [ok |-> TRUE])
  \/ \E t \in SoloTurnIds, resp \in RoomTextResponses : SummaryReturns(t, resp)
  \/ \E t \in SoloTurnIds : SummaryFails(t)
  \/ \E t \in SoloTurnIds, resp \in RoomTextResponses : RecoveryReturns(t, resp)
  \/ \E t \in SoloTurnIds : RecoveryFails(t)
  \/ \E l \in LoopIds, o \in {"vector", "empty", "throw"} : EmbedSettles(l, o)
  \/ \E l \in LoopIds, ok \in BOOLEAN : UpsertSettles(l, ok)
  \/ \E l \in LoopIds : DrainResumes(l)

\* Every call the turn awaits eventually returns or fails; nothing obliges
\* the embedding provider or the vector store to answer the queue.
SpecIngest == Init /\ [][NextIngest]_vars /\ WF_vars(IngestTurnSettles)

\* Every embed and upsert call eventually returns or fails, and a resumed
\* continuation eventually runs; nothing obliges callers to enqueue.
SpecQueueFair == Init /\ [][NextQueue]_vars /\ WF_vars(QueueStep)

-----------------------------------------------------------------------------
(***************************************************************************)
(* C1: once an owning-user id is recorded for a room it never changes: a   *)
(* later join-room or chat-message frame for that room carrying a          *)
(* different user id leaves getUserIdForChat(room) equal to the first      *)
(* recorded id.                                                            *)
(***************************************************************************)
C1_OwnerNeverChanges ==
  [][\A r \in Rooms : getUserIdForChat(r) # None
                       => (Has(roomUsers', r) /\ roomUsers'[r] = roomUsers[r])]_vars

(***************************************************************************)
(* C6: for any sequence of addMessage calls on one room, getHistory        *)
(* returns exactly those messages (those not dropped by an eviction) in    *)
(* append order, and a list already returned by getHistory is not changed  *)
(* by addMessage calls made after it was returned: every returned array    *)
(* still holds what had been appended when it was returned.                *)
(***************************************************************************)
C6_SnapshotIsAppendOrderCopy ==
  \A i \in 1 .. Len(snapshots) :
    /\ Has(heap, snapshots[i].ref)
    /\ heap[snapshots[i].ref] = snapshots[i].expect

\* A returned list of two messages whose room has had a third appended since.
C6_Witness ==
  \E i \in 1 .. Len(snapshots) :
    /\ Len(snapshots[i].expect) = 2
    /\ Len(appendedSinceEviction(snapshots[i].room)) = 3
    /\ Len(historyOf(snapshots[i].room)) = 3

(***************************************************************************)
(* C7: idle eviction run at time now removes a room's whole log exactly    *)
(* when now - lastActivity is greater than one hour; a room whose last     *)
(* append is within the window keeps its log unchanged, and an evicted     *)
(* room's next getHistory returns the empty list.  With keptFrom advanced  *)
(* by that rule at every eviction run, what getHistory returns is always   *)
(* the messages appended and not dropped.                                  *)
(***************************************************************************)
C7_EvictedExactlyWhenIdle ==
  \A r \in Rooms :
    /\ historyOf(r) = appendedSinceEviction(r)
    /\ Has(histories, r) => /\ Has(lastAppendAt, r)
                            /\ histories[r].lastActivity = lastAppendAt[r]
                            /\ Len(appendedSinceEviction(r)) > 0

\* An eviction run has just dropped r1, idle for one hour and 1 ms, and kept
\* r2, idle for exactly one hour.
C7_Witness ==
  /\ Has(lastAppendAt, "r1") /\ now - lastAppendAt["r1"] = CLEANUP_INTERVAL + 1
  /\ keptFrom["r1"] = Len(appended["r1"]) /\ Len(appended["r1"]) > 0
  /\ historyOf("r1") = <<>>
  /\ Has(histories, "r2") /\ now - histories["r2"].lastActivity = CLEANUP_INTERVAL
  /\ Len(historyOf("r2")) > 0

(***************************************************************************)
(* C4: jobs enqueued in the order A, B, C are handed to processing, and    *)
(* upserted when they succeed, in that same order, and a failure while     *)
(* processing B (embedding or upsert error) does not prevent C from being  *)
(* processed: once B has failed and C is enqueued, C is handed to          *)
(* process().                                                              *)
(***************************************************************************)
IsIncreasing(seq) == \A i, j \in 1 .. Len(seq) : i < j => seq[i] < seq[j]

C4_InOrder ==
  /\ \A i \in 1 .. Len(handed) : handed[i] = i
  /\ \A i \in 1 .. Len(queue) : queue[i].id = Len(handed) + i
  /\ Len(handed) + Len(queue) = enqueued
  /\ IsIncreasing(upserted)
  /\ \A i \in 1 .. Len(upserted) : upserted[i] \in finished \cup {loops[l].job : l \in DOMAIN loops}

C4_FifoDespiteFailure ==
  /\ []C4_InOrder
  /\ \A j \in 1 .. MaxJobs - 1 :
       (j \in failedJobs /\ enqueued > j) ~> (\E i \in 1 .. Len(handed) : handed[i] = j + 1)

\* A (job 1) was upserted, B (job 2) failed, C (job 3) was upserted after it.
C4_Witness ==
  /\ upserted = <<1, 3>>
  /\ failedJobs = {2}
  /\ handed = <<1, 2, 3>>

(***************************************************************************)
(* C5: at every moment at most one drain loop is active and at most one    *)
(* job is being processed, for every interleaving of enqueue calls with    *)
(* the in-flight embed and upsert calls of the job being processed.        *)
(***************************************************************************)
InProcess == {handed[i] : i \in 1 .. Len(handed)} \ finished

C5_SingleDrainSingleJob ==
  /\ Cardinality(DOMAIN loops) <= 1
  /\ running <=> DOMAIN loops # {}
  /\ Cardinality(InProcess) <= 1
  /\ InProcess = {loops[l].job : l \in DOMAIN loops}

\* Two jobs were enqueued while the first one's embed call is in flight.
C5_Witness ==
  /\ Len(queue) = 2
  /\ \E l \in DOMAIN loops : loops[l].pc = "embed" /\ loops[l].job = 1

(***************************************************************************)
(* C8: when merged candidates exist but fewer than 3 of them score at      *)
(* least 0.3, the threshold-selected set consists of min(3, n) of the n    *)
(* candidates, none of them scoring lower than a candidate left out; the   *)
(* selection and the final list are non-empty whenever a candidate exists; *)
(* with no candidate no retrieval context is added.                        *)
(***************************************************************************)
CandidateIds ==
  {ragResults[i].id : i \in 1 .. Len(ragResults)}
    \cup {ragProfileResults[i].id : i \in 1 .. Len(ragProfileResults)}

ScoresOf(id) ==
  {ragResults[i].score : i \in {j \in 1 .. Len(ragResults) : ragResults[j].id = id}}
    \cup {ragProfileResults[i].score :
            i \in {j \in 1 .. Len(ragProfileResults) : ragProfileResults[j].id = id}}

BestScore(id) == CHOOSE sc \in ScoresOf(id) : \A t \in ScoresOf(id) : sc >= t

IdsOf(seq) == {seq[i].id : i \in 1 .. Len(seq)}

PassingIds == {id \in CandidateIds : BestScore(id) >= threshold}

C8_FallbackKeepsTopThree ==
  ragStage = "done" =>
    /\ \A i \in 1 .. Len(ragOut.filtered) :
         /\ ragOut.filtered[i].id \in CandidateIds
         /\ ragOut.filtered[i].score = BestScore(ragOut.filtered[i].id)
    /\ (CandidateIds # {} /\ Cardinality(PassingIds) < 3) =>
         /\ Len(ragOut.filtered) = Min(3, Cardinality(CandidateIds))
         /\ Cardinality(IdsOf(ragOut.filtered)) = Len(ragOut.filtered)
         /\ \A id \in IdsOf(ragOut.filtered), other \in CandidateIds \ IdsOf(ragOut.filtered) :
              BestScore(id) >= BestScore(other)
    /\ CandidateIds # {} => (ragOut.filtered # <<>> /\ ragOut.finalList # <<>> /\ ragOut.context)
    /\ CandidateIds = {} => ~ragOut.context

\* Four candidates, one of them passing, the best three not returned first.
C8_Witness ==
  /\ ragStage = "done"
  /\ Cardinality(CandidateIds) = 4
  /\ Cardinality(PassingIds) = 1
  /\ ragResults[1].score = 2
  /\ Len(ragOut.filtered) = 3

(***************************************************************************)
(* C9: every profile-flagged candidate that is among the 3 highest-scoring *)
(* profile-flagged candidates is in the final list, whatever its score and *)
(* however many other candidates pass the threshold.                       *)
(***************************************************************************)
ProfileCandidateIds == {id \in CandidateIds : id \in ProfileIds}

AmongTopThreeProfile(id) ==
  Cardinality({o \in ProfileCandidateIds \ {id} : BestScore(o) >= BestScore(id)}) < 3

C9_ProfileTopInFinalList ==
  ragStage = "done" =>
    \A id \in ProfileCandidateIds :
      AmongTopThreeProfile(id) => id \in IdsOf(ragOut.finalList)

(***************************************************************************)
(* C2: if stop_generation for room R is handled while the first model call *)
(* of R's turn is outstanding, that call fails with a cancellation failure *)
(* (it does not return a response) and no text_stream chunk is broadcast   *)
(* to R for that turn afterwards.                                          *)
(***************************************************************************)
C2_NoStreamAfterCancel ==
  \A t \in TurnIds :
    turns[t].cancelled =>
      /\ turns[t].firstCall \in {"pending", "canceled"}
      /\ ~turns[t].streamAfterCancel

(***************************************************************************)
(* C3: every turn broadcasts at least one text_stream event or one error   *)
(* event before it ends, whatever the model returns and whichever external *)
(* calls fail.                                                             *)
(***************************************************************************)
C3_NeverSilent == \A t \in TurnIds : turns[t].pc = "done" => turns[t].said

(***************************************************************************)
(* C10: a turn that carries a selected document id, or whose text matches  *)
(* the document-task heuristic, issues its first model call with tools     *)
(* disabled and executes no tool, whatever the model returns.              *)
(***************************************************************************)
C10_DocTurnRunsNoTool ==
  \A t \in TurnIds :
    (turns[t].pc # "idle" /\ (turns[t].docs > 0 \/ looksLikeDocTask(turns[t].content))) =>
      /\ turns[t].useFunctions # "enabled"
      /\ turns[t].executed = {}

(***************************************************************************)
(* C13: broadcastToRoom(R, e) sends e to exactly the connections that      *)
(* joined R and are open at that moment: nothing to members that are not   *)
(* open, nothing to connections that did not join R.  (It changes no       *)
(* membership: the chat-message handler leaves clients and rooms alone.)   *)
(***************************************************************************)
OpenMembers(roomId) == {c \in Conns : isOpen(c) /\ roomId \in joined[c]}

C13_BroadcastReachesOpenMembers ==
  [][\A c \in Conns, r \in Rooms, u \in Users \cup {None} :
       ChatMessageFrame(c, r, u) =>
         /\ lastSend'.to = OpenMembers(r)
         /\ clients' = clients
         /\ rooms' = rooms]_vars

(***************************************************************************)
(* C14: joinRoom is idempotent: joining again leaves the registry as the   *)
(* first join left it; the first join creates the room entry if absent,    *)
(* keeps the members the room had and adds the connection's address to     *)
(* the member set, where it appears once.                                  *)
(***************************************************************************)
C14_JoinIdempotent ==
  \A a \in Addresses, r \in Rooms :
    LET once == joinRoom(a, r)
        twice == joinRoomIn(once, a, r)
        before == IF Has(rooms, r) THEN rooms[r] ELSE {}
    IN /\ twice = once
       /\ Has(clients, a) =>
            /\ Has(once.rooms, r)
            /\ once.rooms[r] = before \cup {a}
            /\ Cardinality({x \in once.rooms[r] : x = a}) = 1
            /\ once.clients[a].rooms = clients[a].rooms \cup {r}
            /\ \A o \in DOMAIN rooms \ {r} : once.rooms[o] = rooms[o]

\* A join has just been handled for a room that now has two member
\* addresses, and joining it again would change nothing.
C14_Witness ==
  /\ lastOp.name = "join_chat"
  /\ \E c \in Conns, r \in DOMAIN rooms :
       /\ isOpen(c)
       /\ r \in joined[c]
       /\ Cardinality(rooms[r]) = 2
       /\ joinRoom(addressOf(c), r) = Registry(clients, rooms)

(***************************************************************************)
(* C15: once the close of a connection has been handled, no room lists it: *)
(* every address in a room's member set belongs to a connection that is    *)
(* still connected and has joined that room.                               *)
(***************************************************************************)
C15_ClosedConnectionInNoRoom ==
  \A r \in DOMAIN rooms :
    \A a \in rooms[r] :
      \E c \in Conns : addressOf(c) = a /\ readyState[c] # "none" /\ r \in joined[c]

(***************************************************************************)
(* C16: registry operations on an unknown target are no-ops that return    *)
(* normally: joinRoom and cleanup for an unregistered address leave the    *)
(* registry unchanged, broadcastToRoom for a room without entry sends      *)
(* nothing, and no handler ever throws.                                    *)
(***************************************************************************)
C16_UnknownTargetIsNoOp ==
  /\ ~lastOp.threw
  /\ \A a \in Addresses :
       ~Has(clients, a) =>
         /\ \A r \in Rooms : joinRoom(a, r) = Registry(clients, rooms)
         /\ cleanup(a) = Registry(clients, rooms)
  /\ \A r \in Rooms : ~Has(rooms, r) => broadcastToRoom(r) = {}

\* A join_chat frame from an open connection has just been handled while no
\* address is registered: nothing was registered and no room was created.
C16_Witness ==
  /\ lastOp.name = "join_chat"
  /\ \E c \in Conns : isOpen(c)
  /\ clients = EmptyMap
  /\ rooms = EmptyMap

(***************************************************************************)
(* C11: when the first model response selects addToCart, the turn          *)
(* broadcasts one cart_updated event whose item has the type, name, price, *)
(* quantity and metadata of the args (quantity 1 when the args omit it),   *)
(* and the room's history then ends with the assistant rationale followed  *)
(* by the function message named addToCart.                                *)
(***************************************************************************)
\* The history of the turn's room holds an assistant message followed at once
\* by the function message of the named tool.
RationaleThenResult(t, name) ==
  LET log == chatLog[turns[t].room]
  IN \E i \in 1 .. Len(log) - 1 :
       /\ log[i] = [role |-> "assistant"]
       /\ log[i + 1].role = "function"
       /\ log[i + 1].name = name

C11_AddToCartRoundTrip ==
  \A t \in TurnIds :
    (turns[t].pc = "summaryCall" /\ turns[t].fn = "addToCart") =>
      LET args == turns[t].args
          item == IF Has(args, "quantity") THEN args ELSE Put(args, "quantity", 1)
      IN /\ turns[t].events = <<[type |-> "cart_updated", action |-> "add", item |-> item]>>
         /\ RationaleThenResult(t, "addToCart")

(***************************************************************************)
(* C12: when browsePublishers has run successfully, one publishers_data    *)
(* event carrying the whole publisher list was broadcast, while the tool   *)
(* result pushed onto the conversation of the next model call and stored   *)
(* in the history has the summary, the count and a fixed message only,     *)
(* never the list.                                                         *)
(***************************************************************************)
C12_FullListToRoomSummaryToModel ==
  \A t \in TurnIds :
    (turns[t].pc = "summaryCall" /\ turns[t].fn = "browsePublishers"
       /\ ~Has(turns[t].toolResult, "error")) =>
      \E l \in PublisherLists :
        /\ turns[t].events =
             <<[type |-> "publishers_data", publishers |-> l, totalCount |-> Len(l)]>>
        /\ turns[t].toolResult =
             [summary |-> [found |-> Len(l)], count |-> Len(l), message |-> "sent"]
        /\ \E i \in 1 .. Len(chatLog[turns[t].room]) :
             chatLog[turns[t].room][i] =
               [role |-> "function", name |-> "browsePublishers",
                content |-> turns[t].toolResult]
        /\ \A i \in 1 .. Len(chatLog[turns[t].room]) :
             chatLog[turns[t].room][i].role = "function" =>
               ~Has(chatLog[turns[t].room][i].content, "publishers")

\* The search returned two publishers; the summary call is outstanding.
C12_Witness ==
  \E t \in TurnIds :
    /\ turns[t].pc = "summaryCall"
    /\ turns[t].fn = "browsePublishers"
    /\ turns[t].events # <<>>
    /\ turns[t].events[1].publishers = <<"p1", "p2">>
    /\ turns[t].toolResult.count = 2

(***************************************************************************)
(* C17: a failure of an embedding or vector-store call during document     *)
(* retrieval or conversational retrieval does not abort the turn: the turn *)
(* goes on to its first model call, the system prompt draws on no part     *)
(* that failed, and the catch block of the turn is never entered because   *)
(* of a retrieval failure.                                                 *)
(***************************************************************************)
RetrievalParts == {"docs", "general", "profile"}

C17_RetrievalFailureIsLocal ==
  \A t \in TurnIds :
    /\ turns[t].failed \cap turns[t].context = {}
    /\ turns[t].cause \notin RetrievalParts
    /\ turns[t].pc \in {"done", "recoveryCall"} => turns[t].firstCall # "unset"
    /\ "docs" \in turns[t].failed =>
         \/ turns[t].pc \in {"ragEmbed", "ragProfileEmbed", "ragQuery", "ragProfileQuery"}
         \/ turns[t].firstCall # "unset"
    /\ turns[t].failed \cap {"general", "profile"} # {} => turns[t].firstCall # "unset"

\* Document retrieval and the profile query both threw; the first model call
\* is outstanding with the context of the general query.
C17_Witness ==
  \E t \in TurnIds :
    /\ turns[t].failed = {"docs", "profile"}
    /\ turns[t].context = {"general"}
    /\ turns[t].pc = "firstCall"
    /\ turns[t].recoveryCalls = 0

(***************************************************************************)
(* C18: a failure while a tool is executed never reaches the catch block   *)
(* of the turn: only the failure of a model call (the first call or the    *)
(* summary call) enters it.                                                *)
(***************************************************************************)
C18_OnlyModelCallsEnterCatch ==
  \A t \in TurnIds : turns[t].cause \in {None, "firstCall", "summaryCall"}

(***************************************************************************)
(* C19: a turn whose failure reached the catch block issues exactly one    *)
(* recovery model call, with tools disabled; if that call fails, exactly   *)
(* one error event is broadcast, the turn ends, and no model call follows. *)
(***************************************************************************)
RecoveryIsSingle(t) ==
  /\ turns[t].recoveryCalls = (IF turns[t].cause # None THEN 1 ELSE 0)
  /\ turns[t].cause # None => turns[t].recoveryTools = "disabled"
  /\ turns[t].errorEvents = (IF turns[t].recovery = "failed" THEN 1 ELSE 0)
  /\ turns[t].recovery = "failed" => turns[t].pc = "done"

C19_OneRecoveryCallOneErrorEvent ==
  /\ [](\A t \in TurnIds : RecoveryIsSingle(t))
  /\ [][\A t \in TurnIds :
          turns[t].recovery = "failed" =>
            /\ turns'[t].modelCalls = turns[t].modelCalls
            /\ turns'[t].errorEvents = turns[t].errorEvents]_vars

\* The summary call failed, then the recovery call failed.
C19_Witness ==
  \E t \in TurnIds :
    /\ turns[t].cause = "summaryCall"
    /\ turns[t].recovery = "failed"
    /\ turns[t].modelCalls = 3
    /\ turns[t].errorEvents = 1

(***************************************************************************)
(* C20: a chunk whose embedding comes back empty or fails is the only      *)
(* thing lost: when process(job) settles, the embedding of every chunk of  *)
(* the job has been requested, and the vectors gathered, if any, have been *)
(* handed to one upsert.                                                   *)
(***************************************************************************)
\* The chunks of the job in loop l whose embedding was never requested: left
\* counts the chunk in flight, which stays counted when its embedding threw.
Unrequested(l) == IF loops[l].left > 0 THEN loops[l].left - 1 ELSE 0

\* The batch of loop l went to pinecone.upsert (which stored it or threw).
UpsertIssued(l) ==
  \/ \E i \in 1 .. Len(upserted) : upserted[i] = loops[l].job
  \/ loops[l].failed /\ loops[l].left = 0

C20_OnlyTheChunkIsSkipped ==
  \A l \in DOMAIN loops :
    loops[l].pc = "settled" =>
      /\ Unrequested(l) = 0
      /\ loops[l].vectors > 0 => UpsertIssued(l)

(***************************************************************************)
(* C21: every enqueued job is handed to process() exactly once: no job is  *)
(* handed twice, a job is either waiting in the queue or handed, and every *)
(* enqueued job is eventually taken from the queue when every embed and    *)
(* upsert call settles, also when it was enqueued while another job was in *)
(* process or after a drain loop had ended.                                *)
(***************************************************************************)
HandedJobs == {handed[i] : i \in 1 .. Len(handed)}

WaitingJobs == {queue[i].id : i \in 1 .. Len(queue)}

C21_AtMostOnce ==
  /\ Cardinality(HandedJobs) = Len(handed)
  /\ Cardinality(WaitingJobs) = Len(queue)
  /\ HandedJobs \cap WaitingJobs = {}
  /\ HandedJobs \cup WaitingJobs = 1 .. enqueued

C21_HandedExactlyOnce ==
  /\ []C21_AtMostOnce
  /\ \A j \in 1 .. MaxJobs : (enqueued >= j) ~> (j \in HandedJobs)

\* Three jobs were enqueued and each was handed once; the first two are
\* finished and the third is in process.
C21_Witness ==
  /\ enqueued = 3
  /\ handed = <<1, 2, 3>>
  /\ finished = {1, 2}
  /\ running

(***************************************************************************)
(* C22: a stop_generation for room R handled while R's turn is executing   *)
(* a tool cancels the turn: the summary model call is not issued (and so   *)
(* nothing more of that turn is broadcast).                                *)
(***************************************************************************)
C22_StopDuringToolCancels ==
  \A t \in TurnIds :
    turns[t].stoppedInTool =>
      /\ ~turns[t].summaryAfterStop
      /\ turns[t].pc \notin {"summaryCall", "stream"}

(***************************************************************************)
(* C23: for every room, at every moment, at most one cancellation token is *)
(* live, counting the token stored for the room and every token that is    *)
(* not aborted and is attached to an in-flight first model call of a turn  *)
(* of that room.                                                           *)
(***************************************************************************)
\* A turn's controller is named by the turn.
LiveTokens(chatId) ==
  (IF Has(abortControllers, chatId) THEN {abortControllers[chatId]} ELSE {})
    \cup {t \in TurnIds : turns[t].room = chatId /\ At(t, "firstCall") /\ t \notin aborted}

C23_OneLiveTokenPerRoom == \A r \in Rooms : Cardinality(LiveTokens(r)) <= 1

(***************************************************************************)
(* C24: rooms are independent: a step of a turn of room A, and cancel(A),  *)
(* leave the history, the member set, the owning-user id and the stored    *)
(* cancellation token of every other room B unchanged, and abort no model  *)
(* call of a turn of B.                                                    *)
(***************************************************************************)
SameEntry(map, map2, k) ==
  /\ Has(map, k) <=> Has(map2, k)
  /\ Has(map, k) => map[k] = map2[k]

RoomUntouched(b) ==
  /\ chatLog'[b] = chatLog[b]
  /\ SameEntry(rooms, rooms', b)
  /\ SameEntry(roomUsers, roomUsers', b)
  /\ SameEntry(abortControllers, abortControllers', b)
  /\ \A t \in aborted' \ aborted : turns[t].room # b

C24_RoomsAreIndependent ==
  [][/\ \A t \in TurnIds :
          turns'[t] # turns[t] => \A b \in Rooms \ {turns'[t].room} : RoomUntouched(b)
     /\ \A a \in Rooms :
          StopGeneration(a) => \A b \in Rooms \ {a} : RoomUntouched(b)]_vars

\* The turn of one room was cancelled while the other room's first call is
\* in flight under its own stored token.
C24_Witness ==
  /\ turns[1].room # None
  /\ turns[2].room \notin {None, turns[1].room}
  /\ 1 \in aborted
  /\ At(2, "firstCall")
  /\ Has(abortControllers, turns[2].room)
  /\ abortControllers[turns[2].room] = 2
  /\ Len(chatLog[turns[1].room]) > 1

(***************************************************************************)
(* C25: of two chat-message frames for the same room, the user entry of    *)
(* the frame received first precedes the user entry of the other in the    *)
(* room's history, under every interleaving of the two turns' steps.       *)
(***************************************************************************)
C25_UserEntriesInFrameOrder ==
  \A r \in Rooms :
    /\ \A i, j \in 1 .. Len(chatLog[r]) :
         (i < j /\ chatLog[r][i].role = "user" /\ chatLog[r][j].role = "user") =>
           chatLog[r][i].turn < chatLog[r][j].turn
    /\ \A t \in TurnIds :
         turns[t].room = r =>
           \E i \in 1 .. Len(chatLog[r]) : chatLog[r][i] = [role |-> "user", turn |-> t]

\* Both frames were for one room; the second turn is over, with its answer
\* stored, while the first is still waiting for its first model call.
C25_Witness ==
  /\ turns[1].room = turns[2].room
  /\ At(1, "firstCall")
  /\ At(2, "done")
  /\ Len(chatLog[turns[1].room]) = 3
  /\ chatLog[turns[1].room][3].role = "assistant"

(***************************************************************************)
(* C26: an inbound frame that cannot be parsed as an envelope makes the    *)
(* server send one error event, to the sending connection only; the        *)
(* connection stays open and registered, and no membership, owner or       *)
(* history changes.                                                        *)
(***************************************************************************)
C26_MalformedFrameAnsweredWithError ==
  [][\A c \in Conns, frame \in MalformedFrames :
       MalformedFrame(c, frame) =>
         /\ lastSend'.type = "error"
         /\ lastSend'.to = {c}
         /\ isOpen(c)'
         /\ SameEntry(clients, clients', addressOf(c))
         /\ rooms' = rooms
         /\ roomUsers' = roomUsers
         /\ chatLog' = chatLog]_vars

(***************************************************************************)
(* C27: in document retrieval, when the filtered vector query fails,       *)
(* exactly one more query is made, without filter, and only the matches    *)
(* whose documentId is among the selected ids are kept; when the second    *)
(* query fails too, retrieval returns the empty list without raising.      *)
(***************************************************************************)
FilteredQueryFailed == docCall.pc \in {"unfiltered", "failed"} \/ Len(docCall.queries) > 1

C27_FallbackQueryFilteredInMemory ==
  /\ Len(docCall.queries) <= 2
  /\ \A i \in 1 .. Len(docCall.queries) : docCall.queries[i].filter <=> i = 1
  /\ FilteredQueryFailed =>
       /\ Len(docCall.queries) = 2
       /\ \A i \in 1 .. Len(docCall.matches) :
            \E k \in 1 .. Len(docCall.selectedDocuments) :
              docCall.matches[i].documentId = docCall.selectedDocuments[k]
       /\ \A d \in DocumentIds :
            includes(docCall.selectedDocuments, d) =>
              Cardinality({i \in 1 .. Len(docCall.matches) : docCall.matches[i].documentId = d})
                = Cardinality({i \in 1 .. Len(docCall.returned) : docCall.returned[i].documentId = d})
  /\ docCall.pc = "failed" => docCall.result = <<>> /\ ~docCall.threw

\* The fallback query returned a match of a document that is not selected
\* next to one that is, and only the latter was kept.
C27_Witness ==
  /\ docCall.pc = "done"
  /\ Len(docCall.queries) = 2
  /\ Len(docCall.returned) = 2
  /\ Len(docCall.matches) = 1
  /\ Len(docCall.result) = 1

(***************************************************************************)
(* C28: enqueue never blocks the calling turn.  The step of a turn that    *)
(* enqueues a message returns with no embed or upsert call waited for: the *)
(* new job is waiting in the queue or its first embedding request is in    *)
(* flight, and the calls already in flight are as they were.  A turn       *)
(* reaches its model call and its end even if no ingestion request is ever *)
(* answered.                                                               *)
(***************************************************************************)
Unanswered(j) ==
  \/ \E i \in 1 .. Len(queue') : queue'[i].id = j
  \/ \E l \in DOMAIN loops' :
       loops'[l] = [job |-> j, pc |-> "embed", left |-> 1, vectors |-> 0, failed |-> FALSE]

C28_EnqueueDoesNotBlock ==
  /\ [][enqueued' > enqueued =>
          /\ \A j \in (enqueued + 1) .. enqueued' : Unanswered(j)
          /\ \A l \in DOMAIN loops : Has(loops', l) /\ loops'[l] = loops[l]
          /\ <<upserted, failedJobs, finished>>' = <<upserted, failedJobs, finished>>
          /\ \E t \in SoloTurnIds : turns'[t] # turns[t] /\ turns'[t].pc # "idle"]_vars
  /\ \A t \in SoloTurnIds : ~At(t, "idle") ~> turns[t].modelCalls >= 1
  /\ \A t \in SoloTurnIds : ~At(t, "idle") ~> At(t, "done")

\* The turn is over, with its model call made and its two messages enqueued,
\* and no ingestion request was ever answered.
C28_Witness ==
  /\ At(1, "done")
  /\ turns[1].modelCalls >= 1
  /\ enqueued = 2
  /\ Len(queue) = 1
  /\ finished = {}
  /\ upserted = <<>>
  /\ \E l \in DOMAIN loops : loops[l].pc = "embed"

(***************************************************************************)
(* C29: in a turn where a tool is selected the events reach the room in    *)
(* the order function_call, function_call_start, the tool's UI payload     *)
(* (publishers_data, cart_data, cart_updated), function_call_end,          *)
(* function_result, then the text_stream chunks of the summary; and every  *)
(* text stream is closed by exactly one text_stream_end, after its last    *)
(* chunk.                                                                  *)
(***************************************************************************)
ToolPayloadTypes == {"publishers_data", "cart_data", "cart_updated"}

\* The place of an event in the order of the claim; 0 for the others.
Rank(e) ==
  IF e.type = "function_call" THEN 1
  ELSE IF e.type = "function_call_start" THEN 2
  ELSE IF e.type \in ToolPayloadTypes THEN 3
  ELSE IF e.type = "function_call_end" THEN 4
  ELSE IF e.type = "function_result" THEN 5
  ELSE IF e.type = "text_stream" /\ e.of = "summary" THEN 6
  ELSE 0

Occurs(tr, type) == Cardinality({i \in 1 .. Len(tr) : tr[i].type = type})

InClaimedOrder(tr) ==
  \A i, j \in 1 .. Len(tr) :
    (i < j /\ Rank(tr[i]) > 0 /\ Rank(tr[j]) > 0) => Rank(tr[i]) <= Rank(tr[j])

StreamsClosedOnce(t, tr) ==
  /\ \A i \in 1 .. Len(tr) :
       tr[i].type = "text_stream" =>
         IF i = Len(tr)
           THEN At(t, "stream") /\ turns[t].after = tr[i].of
           ELSE tr[i + 1].of = tr[i].of /\ tr[i + 1].type \in {"text_stream", "text_stream_end"}
  /\ \A i \in 1 .. Len(tr) :
       tr[i].type = "text_stream_end" =>
         i > 1 /\ tr[i - 1] = Event("text_stream", tr[i].of)
  /\ \A of \in {"first", "summary", "recovery"} :
       Cardinality({i \in 1 .. Len(tr) : tr[i] = Event("text_stream_end", of)}) <= 1

C29_ToolEventsInOrder ==
  \A t \in TurnIds :
    /\ StreamsClosedOnce(t, turns[t].trace)
    /\ turns[t].executed # {} =>
         /\ InClaimedOrder(turns[t].trace)
         /\ Occurs(turns[t].trace, "function_call") >= 1
         /\ Occurs(turns[t].trace, "function_call_start") = 1
         /\ turns[t].toolResult # EmptyMap =>
              /\ Occurs(turns[t].trace, "function_call_end") = 1
              /\ Occurs(turns[t].trace, "function_result") = 1

\* A turn with a rationale, a publisher search and a two-chunk summary is
\* over: ten events.
C29_Witness ==
  \E t \in TurnIds :
    /\ At(t, "done")
    /\ turns[t].executed = {"browsePublishers"}
    /\ Len(turns[t].trace) = 10
    /\ turns[t].trace[3].type = "function_call"
    /\ turns[t].trace[5].type = "publishers_data"
    /\ turns[t].trace[8] = Event("text_stream", "summary")
    /\ turns[t].trace[10] = Event("text_stream_end", "summary")

(***************************************************************************)
(* C30: every turn terminates, provided each external call returns or      *)
(* fails: it executes at most one tool, its summary call is made with the  *)
(* tools disabled, and it makes at most three model calls (the first, the  *)
(* summary and one recovery call).                                         *)
(***************************************************************************)
TurnIsBounded(t) ==
  /\ Cardinality(turns[t].executed) <= 1
  /\ Occurs(turns[t].trace, "function_call_start") <= 1
  /\ turns[t].summaryTools # "enabled"
  /\ turns[t].recoveryCalls <= 1
  /\ turns[t].modelCalls <= 3
  /\ turns[t].modelCalls
       <= 1 + (IF turns[t].summaryTools = "unset" THEN 0 ELSE 1) + turns[t].recoveryCalls

C34_MembershipMapsAgree ==
  \A a \in Addresses, r \in Rooms :
    (Has(rooms, r) /\ a \in rooms[r]) <=> (Has(clients, a) /\ r \in clients[a].rooms)

(***************************************************************************)
(* C35: a connection is delivered a room-scoped event of room R only if    *)
(* that same connection sent a join-room frame for R earlier.              *)
(***************************************************************************)
C35_EventsOnlyToJoiners ==
  lastSend.room # None => \A c \in lastSend.to : lastSend.room \in joined[c]

(***************************************************************************)
(* C36: an open connection stays registered until its own close is         *)
(* handled: the connect or the close of another connection leaves its      *)
(* registry entry as it is, and a join-room frame it sends makes it a      *)
(* member of the room.                                                     *)
(***************************************************************************)
RegisteredAs(cl, c) == Has(cl, addressOf(c)) /\ cl[addressOf(c)].ws = c

C36_OpenConnectionStaysRegistered ==
  [][/\ \A c, d \in Conns :
          (c # d /\ isOpen(c) /\ RegisteredAs(clients, c) /\ (Connect(d) \/ HandleClose(d)))
            => RegisteredAs(clients', c)
     /\ \A c \in Conns, r \in Rooms, u \in Users \cup {None} :
          JoinChatFrame(c, r, u) =>
            /\ RegisteredAs(clients', c)
            /\ r \in clients'[addressOf(c)].rooms
            /\ Has(rooms', r)
            /\ addressOf(c) \in rooms'[r]]_vars

(***************************************************************************)
(* C31: while a room has no owning-user id recorded, a turn for that room  *)
(* issues no embedding call and no vector-store query and enqueues no      *)
(* ingestion job.                                                          *)
(***************************************************************************)
RetrievalPcs ==
  {"docEmbed", "docQuery", "ragEmbed", "ragQuery", "ragProfileEmbed", "ragProfileQuery"}

C31_NoOwnerNoRetrievalNoIngestion ==
  [][/\ \A t \in TurnIds :
          (turns'[t].pc \in RetrievalPcs /\ turns'[t].pc # turns[t].pc)
            => Has(roomUsers', turns'[t].room)
     /\ \A r \in Rooms : embedLog'[r] # embedLog[r] => Has(roomUsers', r)
     /\ enqueued' > enqueued =>
          \E r \in Rooms : embedLog'[r] # embedLog[r] /\ Has(roomUsers', r)]_vars

\* A turn of a room without owner is over, its answer stored, and nothing
\* was embedded, queried or enqueued for it.
C31_Witness ==
  \E t \in TurnIds :
    /\ At(t, "done")
    /\ ~Has(roomUsers, turns[t].room)
    /\ turns[t].modelCalls >= 1
    /\ turns[t].context = {}
    /\ embedLog[turns[t].room] = <<>>
    /\ Len(chatLog[turns[t].room]) >= 2

(***************************************************************************)
(* C32: for every topKPerDoc, minScore and set of selected document ids,   *)
(* querySelectedDocuments returns only chunks whose documentId is one of   *)
(* the selected ids, and never more than topKPerDoc chunks for any one     *)
(* document.                                                               *)
(***************************************************************************)
\* The selected ids are a set: no id is listed twice.
SelectedIsSet ==
  \A i, j \in 1 .. Len(docCall.selectedDocuments) :
    docCall.selectedDocuments[i] = docCall.selectedDocuments[j] => i = j

C32_SelectedOnlyAndCappedPerDocument ==
  (docCall.pc = "done" /\ SelectedIsSet) =>
    /\ \A i \in 1 .. Len(docCall.result) :
         includes(docCall.selectedDocuments, docCall.result[i].documentId)
    /\ \A d \in DocumentIds :
         Cardinality({i \in 1 .. Len(docCall.result) : docCall.result[i].documentId = d})
           <= docCall.topKPerDoc

(***************************************************************************)
(* C33: assistant-message ingestion jobs are processed by the queue in the *)
(* order in which their turns appended the final assistant message to the  *)
(* history, and within one turn the user-message job is processed before   *)
(* the assistant-message job, for every interleaving of turns across       *)
(* rooms.                                                                  *)
(***************************************************************************)
\* The jobs the turns enqueued.
Jobs == UNION {{embedLog[r][i] : i \in 1 .. Len(embedLog[r])} : r \in Rooms}

HandedAt(j) == CHOOSE i \in 1 .. Len(handed) : handed[i] = j

\* Job a was handed to process() before job b, or b was not handed yet.
ProcessedBefore(a, b) ==
  b \in HandedJobs => (a \in HandedJobs /\ HandedAt(a) < HandedAt(b))

C33_IngestionFollowsTurnOrder ==
  /\ [](\A x, y \in Jobs :
          /\ (x.turn = y.turn /\ x.role = "user" /\ y.role = "assistant")
               => ProcessedBefore(x.job, y.job)
          /\ (x.role = "assistant" /\ y.role = "assistant" /\ x.job < y.job)
               => ProcessedBefore(x.job, y.job))
  /\ [][\A r \in Rooms :
          (embedLog'[r] # embedLog[r]
             /\ embedLog'[r][Len(embedLog'[r])].role = "assistant")
          => /\ Len(chatLog'[r]) = Len(chatLog[r]) + 1
             /\ chatLog'[r][Len(chatLog'[r])] = [role |-> "assistant"]
             /\ embedLog'[r][Len(embedLog'[r])].job = enqueued + 1
             /\ \A x \in Jobs : x.job <= enqueued]_vars

\* Two turns of two rooms interleaved: the second finished first, and the
\* four jobs were handed to process() in the order they were enqueued.
C33_Witness ==
  /\ turns[1].room # turns[2].room
  /\ At(1, "done")
  /\ At(2, "done")
  /\ handed = <<1, 2, 3, 4>>
  /\ \E x, y \in Jobs :
       /\ x = [role |-> "assistant", userId |-> "u1", turn |-> 2, job |-> 3]
       /\ y = [role |-> "assistant", userId |-> "u1", turn |-> 1, job |-> 4]

(***************************************************************************)
(* C37: all ingestion jobs created for one room carry the same owning-user *)
(* id, for every sequence of join-room and chat-message frames on that     *)
(* room.                                                                   *)
(***************************************************************************)
C37_OneNamespacePerRoom ==
  \A r \in Rooms :
    \A i, j \in 1 .. Len(embedLog[r]) : embedLog[r][i].userId = embedLog[r][j].userId

(***************************************************************************)
(* C38: cancel(R) aborts only the token stored for R, which is the token   *)
(* of the most recently issued first model call of R: when two turns of R  *)
(* both await their first model call, cancel(R) aborts the later one only, *)
(* and the earlier turn goes on to its end and broadcasts its response.    *)
(***************************************************************************)
\* The turns of the room that await their first model call.
AwaitingFirstCall(r) == {t \in TurnIds : turns[t].room = r /\ At(t, "firstCall")}

C38_CancelAbortsTheLatestCallOnly ==
  /\ [](\A r \in Rooms :
          Has(abortControllers, r) =>
            /\ turns[abortControllers[r]].room = r
            /\ \A t \in AwaitingFirstCall(r) : turns[t].firstCallNo <= turns[abortControllers[r]].firstCallNo)
  /\ [](\A t \in TurnIds : turns[t].cancelled => t \in aborted)
  /\ [][\A r \in Rooms :
          StopGeneration(r) =>
            /\ aborted' \ aborted
                 = (IF Has(abortControllers, r) THEN {abortControllers[r]} ELSE {}) \ aborted
            /\ \A t \in TurnIds :
                 (~Has(abortControllers, r) \/ abortControllers[r] # t) =>
                   (turns'[t].cancelled = turns[t].cancelled /\ turns'[t].pc = turns[t].pc)]_vars

\* Two turns of one room awaited their first model call when the room was
\* cancelled: the later one was aborted, the earlier one is over and has
\* broadcast and stored its answer.
C38_Witness ==
  /\ turns[1].room = turns[2].room
  /\ aborted = {2}
  /\ turns[2].cancelled
  /\ turns[1].firstCallNo < turns[2].firstCallNo
  /\ At(1, "done")
  /\ ~turns[1].cancelled
  /\ turns[1].firstCall = "returned"
  /\ turns[1].said
  /\ \E i \in 1 .. Len(chatLog[turns[1].room]) : chatLog[turns[1].room][i].role = "assistant"

(***************************************************************************)
(* C39: a stop_generation for room R handled after R's chat-message was    *)
(* accepted and before the turn has issued its first model call has no     *)
(* effect on that turn: it aborts at most a token left by an earlier turn, *)
(* and the turn's first model call is later issued with a fresh token that *)
(* is not aborted.                                                         *)
(***************************************************************************)
\* The turn was started and its first model call is not issued yet.
AssemblingContext(t) == ~At(t, "idle") /\ turns[t].firstCall = "unset"

C39_EarlyStopLeavesTheTurnAlone ==
  /\ [](\A t \in TurnIds : AssemblingContext(t) => t \notin aborted)
  /\ [][/\ \A r \in Rooms, t \in TurnIds :
             (StopGeneration(r) /\ turns[t].room = r /\ AssemblingContext(t)) =>
               /\ turns'[t].pc = turns[t].pc
               /\ ~turns'[t].cancelled
               /\ t \notin aborted'
               /\ \A u \in aborted' \ aborted : turns[u].room = r /\ ~AssemblingContext(u)
        /\ \A t \in TurnIds :
             (turns[t].firstCall = "unset" /\ turns'[t].firstCall # "unset") =>
               /\ turns'[t].firstCall = "pending"
               /\ t \notin aborted'
               /\ ~turns'[t].cancelled
               /\ Has(abortControllers', turns'[t].room)
               /\ abortControllers'[turns'[t].room] = t]_vars
  /\ \A t \in TurnIds : AssemblingContext(t) ~> turns[t].firstCall # "unset"

\* The room was stopped while the second turn assembled its context: the
\* token of the first turn was aborted, and the second turn has issued its
\* first model call under its own token, which is not aborted.
C39_Witness ==
  /\ turns[1].room = turns[2].room
  /\ turns[2].stoppedInContext
  /\ aborted = {1}
  /\ At(2, "firstCall")
  /\ turns[2].firstCall = "pending"
  /\ ~turns[2].cancelled
  /\ Has(abortControllers, turns[2].room)
  /\ abortControllers[turns[2].room] = 2

====
